---- MODULE Spec2Model ----
(***************************************************************************)
(* A model of the diskinfo package (src/src/diskinfo): Disk construction   *)
(* from one of five identifiers, media-type classification, and the        *)
(* parsing of smartctl output in Disk.get_smart_data.                      *)
(*                                                                         *)
(* Text is modelled as a sequence of atoms.  Names, serial numbers and     *)
(* WWNs are sequences of one-character strings, so that Python's `==` and  *)
(* `in` on them are list equality and contiguous-sublist search.           *)
(***************************************************************************)
EXTENDS Integers, Sequences, FiniteSets, TLC

VARIABLES
    host,      \* the file-system view: /sys/block, /dev, /dev/disk/by-*, /run/udev/data
    call,      \* the keyword arguments of the last Disk(...) call
    result,    \* what that call gave: a Disk, or the exception it raised
    stdout,    \* the lines smartctl printed for the last get_smart_data call
    smart,     \* what that get_smart_data call gave
    di,        \* the DiskInfo object: its list of discovered disks
    answer,    \* what the last call of a DiskInfo method or of a size function gave
    udev,      \* a partition's device node, its udev data file and what df prints
    part       \* what the last Partition(...) call gave

vars == <<host, call, result, stdout, smart, di, answer, udev, part>>

----------------------------------------------------------------------------
(* Bounds of the model. *)

\* The largest number of entries of /sys/block.
MaxDevices == 2

----------------------------------------------------------------------------
(* DiskType (disktype.py). *)

HDD == 1
SSD == 2
NVME == 4
LOOP == 8

----------------------------------------------------------------------------
(* Python string operations. *)

\* `needle in hay`
StrIn(needle, hay) ==
    \E i \in 0..(Len(hay) - Len(needle)) :
        SubSeq(hay, i + 1, i + Len(needle)) = needle

\* `s.startswith(prefix)`
StartsWith(s, prefix) ==
    /\ Len(prefix) <= Len(s)
    /\ SubSeq(s, 1, Len(prefix)) = prefix

----------------------------------------------------------------------------
(* The host: block devices as sysfs, udev and /dev present them. *)

EmptyStr == <<>>

sda == <<"s", "d", "a">>
sdb == <<"s", "d", "b">>
nvme0n1 == <<"n", "v", "m", "e", "0", "n", "1">>
loop0 == <<"l", "o", "o", "p", "0">>
sdz == <<"s", "d", "z">>

DeviceNames == {sda, sdb, nvme0n1, loop0}

\* Contents of /sys/block/<name>/queue/rotational as _read_file returns them:
\* "1", "0", the empty string (file missing or empty) and a malformed value.
RotationalValues == {<<"1">>, <<"0">>, EmptyStr, <<"2">>}

\* The block device called n, with rot in its rotational file.  What udev
\* reports (serial, WWN, links) is fixed per name; sda's WWN is a proper
\* prefix of sdb's.  loop0 has major 7 and no persistent identity.
BlockDevice(n, rot) ==
    CASE n = sda ->
           [name |-> n, dev |-> <<"8", ":", "0">>, rotational |-> rot,
            size |-> 8, model |-> <<"W", "D">>, firmware |-> <<"F", "1">>,
            physical_block_size |-> 4096, logical_block_size |-> 512,
            serial |-> <<"S", "1">>, wwn |-> <<"5", "a">>,
            model_enc |-> <<"W", "D", " ", "1">>,
            part_table_type |-> <<"g", "p", "t">>, part_table_uuid |-> <<"u", "1">>,
            byid |-> << <<"a", "1">>, <<"w", "1">> >>,
            bypath |-> << <<"p", "1">> >>, hwmon |-> 1]
      [] n = sdb ->
           [name |-> n, dev |-> <<"8", ":", "1", "6">>, rotational |-> rot,
            size |-> 16, model |-> <<"E", "V", "O">>, firmware |-> <<"F", "2">>,
            physical_block_size |-> 512, logical_block_size |-> 512,
            serial |-> <<"S", "2">>, wwn |-> <<"5", "a", "b">>,
            model_enc |-> <<"E", "V", "O", " ", "2">>,
            part_table_type |-> <<"m", "b", "r">>, part_table_uuid |-> <<"u", "2">>,
            byid |-> << <<"a", "2">>, <<"w", "2">> >>,
            bypath |-> << <<"p", "2">> >>, hwmon |-> 0]
      [] n = nvme0n1 ->
           [name |-> n, dev |-> <<"2", "5", "9", ":", "0">>, rotational |-> rot,
            size |-> 32, model |-> <<"D", "P">>, firmware |-> <<"F", "3">>,
            physical_block_size |-> 512, logical_block_size |-> 512,
            serial |-> <<"S", "3">>, wwn |-> <<"e", "1">>,
            model_enc |-> EmptyStr,
            part_table_type |-> <<"g", "p", "t">>, part_table_uuid |-> <<"u", "3">>,
            byid |-> << <<"n", "3">> >>,
            bypath |-> << <<"p", "3">> >>, hwmon |-> 3]
      [] OTHER ->
           [name |-> n, dev |-> <<"7", ":", "0">>, rotational |-> rot,
            size |-> 0, model |-> EmptyStr, firmware |-> EmptyStr,
            physical_block_size |-> 512, logical_block_size |-> 512,
            serial |-> EmptyStr, wwn |-> EmptyStr,
            model_enc |-> EmptyStr,
            part_table_type |-> EmptyStr, part_table_uuid |-> EmptyStr,
            byid |-> << >>, bypath |-> << >>, hwmon |-> 0]

Devices == {BlockDevice(n, rot) : n \in DeviceNames, rot \in RotationalValues}

\* The listings os.listdir("/sys/block/") can give: up to MaxDevices devices
\* with distinct names, in any order.
RECURSIVE Listings(_)
Listings(k) ==
    IF k = 0 THEN {<< >>}
    ELSE LET shorter == Listings(k - 1)
         IN  shorter \cup
             {Append(l, d) : l \in {s \in shorter : Len(s) = k - 1},
                             d \in Devices}

DistinctNames(l) ==
    \A i, j \in 1..Len(l) : l[i].name = l[j].name => i = j

\* The state of /dev/disk/by-id and /dev/disk/by-path: "live" holds exactly
\* the links of the devices present, "stale" also keeps the links of devices
\* that are gone (dangling), "purged" holds no link at all.
LinkStates == {"live", "stale", "purged"}

Hosts ==
    {[blk |-> l, links |-> s] :
        l \in {x \in Listings(MaxDevices) : DistinctNames(x)}, s \in LinkStates}

ById == "by-id"
ByPath == "by-path"

LinksOf(d, dir) == IF dir = ById THEN d.byid ELSE d.bypath

SeqRange(s) == {s[i] : i \in 1..Len(s)}

\* The index in the listing of the device called n, 0 when there is none.
IndexOfName(h, n) ==
    LET hits == {i \in 1..Len(h.blk) : h.blk[i].name = n}
    IN  IF hits = {} THEN 0 ELSE CHOOSE i \in hits : TRUE

----------------------------------------------------------------------------
(* File-system primitives, as Disk.__init__ uses them. *)

\* os.listdir("/sys/block/"): the names, in listing order.
ListDir(h) == [i \in 1..Len(h.blk) |-> h.blk[i].name]

\* os.path.exists("/dev/" + n) and os.path.exists("/sys/block/" + n): a
\* device node and a sysfs directory exist for exactly the devices present.
DevNodeExists(h, n) == IndexOfName(h, n) # 0
SysBlockExists(h, n) == IndexOfName(h, n) # 0

\* Disk._read_file("/sys/block/" + n + "/" + attr): the stripped content, the
\* empty string when the file cannot be read.
ReadFile(h, n, attr) ==
    LET i == IndexOfName(h, n)
    IN  IF i = 0 THEN EmptyStr ELSE h.blk[i][attr]

\* Disk._read_udev_property: the value of a property in /run/udev/data/b<dev>,
\* the empty string when the file or the property is missing.  The file is
\* found by device id, not by name.
ReadUdevProperty(h, dev, prop) ==
    LET hits == {i \in 1..Len(h.blk) : h.blk[i].dev = dev}
    IN  IF dev = EmptyStr \/ hits = {} THEN EmptyStr
        ELSE h.blk[CHOOSE i \in hits : TRUE][prop]

DiskDir(dir) == IF dir = ById THEN <<"/dev/disk/by-id/">> ELSE <<"/dev/disk/by-path/">>

\* Disk._read_udev_path: the "S:disk/by-id/..." (or by-path) lines of the udev
\* data file, each as "/dev/" + the link, in file order.
ReadUdevPath(h, dev, dir) ==
    LET hits == {i \in 1..Len(h.blk) : h.blk[i].dev = dev}
    IN  IF dev = EmptyStr \/ hits = {} THEN << >>
        ELSE LET links == LinksOf(h.blk[CHOOSE i \in hits : TRUE], dir)
             IN  [k \in 1..Len(links) |-> DiskDir(dir) \o links[k]]

\* The device of the universe that udev gives the link to, if any.
LinkOwners(dir, link) ==
    {n \in DeviceNames : link \in SeqRange(LinksOf(BlockDevice(n, EmptyStr), dir))}

\* os.readlink("/dev/disk/<dir>/" + link): found is FALSE when there is no
\* such symlink (FileNotFoundError); target is the basename of its target.
ReadLink(h, dir, link) ==
    LET owners == LinkOwners(dir, link)
        owner == CHOOSE n \in owners : TRUE
        there == /\ owners # {}
                 /\ \/ h.links = "stale"
                    \/ h.links = "live" /\ IndexOfName(h, owner) # 0
    IN  IF there THEN [found |-> TRUE, target |-> owner]
        ELSE [found |-> FALSE, target |-> EmptyStr]

\* os.path.exists of a /dev/disk/<dir>/ path: the symlink is there and its
\* target exists.
LinkPathExists(h, dir, path) ==
    LET link == SubSeq(path, 2, Len(path))
        r == ReadLink(h, dir, link)
    IN  r.found /\ DevNodeExists(h, r.target)

\* glob.glob of the three temp1_input patterns (lines 179, 185, 191): the k-th
\* pattern matches a file when the device has hwmon layout k.
HwmonPattern(k) ==
    CASE k = 1 -> "/device/hwmon/hwmon*/temp1_input"
      [] k = 2 -> "/device/device/hwmon/hwmon*/temp1_input"
      [] OTHER -> "/device/hwmon*/temp1_input"

Glob(h, n, k) ==
    IF ReadFile(h, n, "hwmon") = k
    THEN << <<"/sys/block/">> \o n \o <<HwmonPattern(k)>> >>
    ELSE << >>

----------------------------------------------------------------------------
(* Disk.__init__ (disk.py, lines 89-194). *)

\* The keyword arguments of Disk(...).  None and "" are both the empty
\* string here: the constructor only tests their truth value.
Call(n, s, w, i, p) ==
    [wwn |-> w, disk_name |-> n, serial_number |-> s,
     byid_name |-> i, bypath_name |-> p]

\* An attribute the constructor never assigned (reading it raises
\* AttributeError).
Unset == <<"<unset>">>

\* What the caller holds when the constructor raised: no object.
NoDisk ==
    [name |-> EmptyStr, size |-> 0, model |-> EmptyStr, firmware |-> EmptyStr,
     physical_block_size |-> 0, logical_block_size |-> 0, wwn |-> EmptyStr,
     part_table_type |-> EmptyStr, part_table_uuid |-> EmptyStr,
     path |-> EmptyStr, serial_number |-> EmptyStr, byid_path |-> << >>,
     bypath_path |-> << >>, type |-> 0, device_id |-> EmptyStr,
     hwmon_path |-> Unset]

\* The constructor raised exc at the step `at`, after io file-system calls.
Raise(exc, at, io) == [exc |-> exc, at |-> at, io |-> io, disk |-> NoDisk]

\* Line 102: the comparison of the serial-number scan.
SerialMatches(requested, reported) == requested = reported

\* Line 114: the comparison of the WWN scan.
WwnMatches(requested, reported) == StrIn(requested, reported)

\* Lines 99-104: the entries of /sys/block for which the scan's comparison
\* holds; the loop breaks at the first of them.
SerialHits(h, serial_number) ==
    {i \in 1..Len(h.blk) :
        SerialMatches(serial_number,
                      ReadUdevProperty(h, ReadFile(h, ListDir(h)[i], "dev"), "serial"))}

\* Lines 111-116.
WwnHits(h, wwn) ==
    {i \in 1..Len(h.blk) :
        WwnMatches(wwn,
                   ReadUdevProperty(h, ReadFile(h, ListDir(h)[i], "dev"), "wwn"))}

Min(S) == CHOOSE x \in S : \A y \in S : x <= y

\* The outcome of a scan: one listdir, then a read of dev and of the udev
\* data file per entry visited.
Scan(h, hits) ==
    IF hits = {}
    THEN [exc |-> "ValueError", name |-> EmptyStr, io |-> 1 + 2 * Len(h.blk)]
    ELSE [exc |-> "none", name |-> ListDir(h)[Min(hits)], io |-> 1 + 2 * Min(hits)]

\* Lines 121-125: the basename of the symlink's target.
FollowLink(h, dir, link) ==
    LET r == ReadLink(h, dir, link)
    IN  IF r.found THEN [exc |-> "none", name |-> r.target, io |-> 1]
        ELSE [exc |-> "FileNotFoundError", name |-> EmptyStr, io |-> 1]

\* Resolve with the scan of /sys/block started before the identifiers are
\* looked at: a call without identifier lists the directory, then fails.
Resolve_scan_first(h, c) ==
    IF c.disk_name # EmptyStr
    THEN [exc |-> "none", name |-> c.disk_name, io |-> 0]
    ELSE IF c.serial_number # EmptyStr
    THEN Scan(h, SerialHits(h, c.serial_number))
    ELSE IF c.wwn # EmptyStr
    THEN Scan(h, WwnHits(h, c.wwn))
    ELSE IF c.byid_name # EmptyStr
    THEN FollowLink(h, ById, c.byid_name)
    ELSE IF c.bypath_name # EmptyStr
    THEN FollowLink(h, ByPath, c.bypath_name)
    ELSE [exc |-> "ValueError", name |-> EmptyStr, io |-> 1]

\* Resolve with the serial number looked at before the name.
Resolve_serial_first(h, c) ==
    IF c.serial_number # EmptyStr
    THEN Scan(h, SerialHits(h, c.serial_number))
    ELSE IF c.disk_name # EmptyStr
    THEN [exc |-> "none", name |-> c.disk_name, io |-> 0]
    ELSE IF c.wwn # EmptyStr
    THEN Scan(h, WwnHits(h, c.wwn))
    ELSE IF c.byid_name # EmptyStr
    THEN FollowLink(h, ById, c.byid_name)
    ELSE IF c.bypath_name # EmptyStr
    THEN FollowLink(h, ByPath, c.bypath_name)
    ELSE [exc |-> "ValueError", name |-> EmptyStr, io |-> 0]

\* Lines 93-128: the if/elif chain that turns the identifier into a name.
Resolve(h, c) ==
    IF c.disk_name # EmptyStr
    THEN [exc |-> "none", name |-> c.disk_name, io |-> 0]
    ELSE IF c.serial_number # EmptyStr
    THEN Scan(h, SerialHits(h, c.serial_number))
    ELSE IF c.wwn # EmptyStr
    THEN Scan(h, WwnHits(h, c.wwn))
    ELSE IF c.byid_name # EmptyStr
    THEN FollowLink(h, ById, c.byid_name)
    ELSE IF c.bypath_name # EmptyStr
    THEN FollowLink(h, ByPath, c.bypath_name)
    ELSE [exc |-> "ValueError", name |-> EmptyStr, io |-> 0]

\* DetermineType with a default: any rotational value but "1" is an SSD.
DetermineType_default_ssd(name, rotational) ==
    LET by_rotation == IF rotational = <<"1">> THEN HDD ELSE SSD
    IN  IF StrIn(<<"n", "v", "m", "e">>, name)
        THEN [raised |-> FALSE, type |-> NVME]
        ELSE [raised |-> FALSE, type |-> by_rotation]

\* Lines 138-148: the type from the rotational file and the name; raised is
\* TRUE where the code raises RuntimeError.
DetermineType(name, rotational) ==
    LET by_rotation == IF rotational = <<"1">> THEN HDD
                       ELSE IF rotational = <<"0">> THEN SSD
                       ELSE 0
    IN  IF by_rotation = 0 THEN [raised |-> TRUE, type |-> 0]
        ELSE IF StrIn(<<"n", "v", "m", "e">>, name)
        THEN [raised |-> FALSE, type |-> NVME]
        ELSE [raised |-> FALSE, type |-> by_rotation]

\* Lines 165-175: the first path of the list that does not exist, 0 if all do.
FirstMissing(h, dir, paths) ==
    LET missing == {k \in 1..Len(paths) : ~LinkPathExists(h, dir, paths[k])}
    IN  IF missing = {} THEN 0 ELSE Min(missing)

\* Lines 177-194: the first of the three patterns whose glob gives a file
\* that exists, 0 if none does.
HwmonStep(h, name) ==
    LET found == {k \in 1..3 : Glob(h, name, k) # << >>}
    IN  IF found = {} THEN 0 ELSE Min(found)

\* Lines 130-194, once the name is known after io0 file-system calls.
Build(h, name, io0) ==
    IF ~DevNodeExists(h, name) THEN Raise("ValueError", "path", io0 + 1)
    ELSE IF ~SysBlockExists(h, name) THEN Raise("ValueError", "path", io0 + 2)
    ELSE
    LET t == DetermineType(name, ReadFile(h, name, "rotational"))
        device_id == ReadFile(h, name, "dev")
        model_enc == ReadUdevProperty(h, device_id, "model_enc")
        byid_path == ReadUdevPath(h, device_id, ById)
        bypath_path == ReadUdevPath(h, device_id, ByPath)
        byid_missing == FirstMissing(h, ById, byid_path)
        bypath_missing == FirstMissing(h, ByPath, bypath_path)
        step == HwmonStep(h, name)
        \* 5 sysfs reads and 6 udev reads (lines 151-161), then the udev read
        \* and the exists calls of the by-id paths.
        io1 == io0 + 3 + 11 + 1 + Len(byid_path)
        io2 == io1 + 1 + Len(bypath_path)
    IN  IF t.raised THEN Raise("RuntimeError", "type", io0 + 3)
        ELSE IF byid_missing # 0
        THEN Raise("RuntimeError", "by-id", io0 + 3 + 11 + 1 + byid_missing)
        ELSE IF bypath_missing # 0
        THEN Raise("RuntimeError", "by-path", io1 + 1 + bypath_missing)
        ELSE
        [exc |-> "none", at |-> "", io |-> io2 + (IF step = 0 THEN 3 ELSE step + 1),
         disk |->
           [name |-> name,
            path |-> <<"/dev/">> \o name,
            byid_path |-> byid_path,
            bypath_path |-> bypath_path,
            wwn |-> ReadUdevProperty(h, device_id, "wwn"),
            model |-> IF model_enc # EmptyStr THEN model_enc
                      ELSE ReadFile(h, name, "model"),
            serial_number |-> ReadUdevProperty(h, device_id, "serial"),
            firmware |-> ReadUdevProperty(h, device_id, "firmware"),
            type |-> t.type,
            size |-> ReadFile(h, name, "size"),
            device_id |-> device_id,
            physical_block_size |-> ReadFile(h, name, "physical_block_size"),
            logical_block_size |-> ReadFile(h, name, "logical_block_size"),
            part_table_type |-> ReadUdevProperty(h, device_id, "part_table_type"),
            part_table_uuid |-> ReadUdevProperty(h, device_id, "part_table_uuid"),
            hwmon_path |-> IF step = 0 THEN Unset ELSE Glob(h, name, step)[1]]]

\* Disk(disk_name, serial_number, wwn, byid_name, bypath_name) on host h.
DiskInit(h, c) ==
    LET r == Resolve(h, c)
    IN  IF r.exc # "none"
        THEN Raise(r.exc, "identifier", r.io)
        ELSE Build(h, r.name, r.io)

\* is_ssd that takes every non-rotating disk, NVMe included, for an SSD.
is_ssd_not_hdd(d) == d.type \in {SSD, NVME}

\* Lines 323-381: get_type and the type predicates.
get_type(d) == d.type
is_ssd(d) == d.type = SSD
is_nvme(d) == d.type = NVME
is_hdd(d) == d.type = HDD

\* Disk.is_loop is not part of disk.py; it is taken from the specification's
\* data model (media type is exactly one of HDD/SSD/NVMe/LOOP).
is_loop(d) == d.type = LOOP

----------------------------------------------------------------------------
(* smartctl output.  A line is a sequence of atoms: a label or a word is one *)
(* atom, the characters of a value are one atom each.                       *)

Banner == <<"smartctl 7.2 2020-12-30 r5155 [x86_64-linux-5.10.0-14-amd64] (local build)">>
Copyright == <<"Copyright (C) 2002-20, Bruce Allen, Christian Franke, www.smartmontools.org">>
Blank == << >>

\* The three lines smartctl prints first.
Prologue == <<Banner, Copyright, Blank>>

StartOfInformation == <<"===", " START OF INFORMATION SECTION ", "===">>
StartOfSmartData == <<"===", " START OF SMART DATA SECTION ", "===">>
HealthPassed == <<"SMART overall-health self-assessment test result: ", "PASSED">>
HealthFailed == <<"SMART overall-health self-assessment test result: ", "FAILED", "!">>
StandbyLine == <<"Device is in ", "STANDBY", " mode, exit(2)">>
OpenFailed == <<"Smartctl open device", ": /dev/sda failed: Permission denied">>
UnableToDetect == <<"/dev/sda: Unable to detect device type">>
NvmeLogHeader == <<"SMART/Health Information (NVMe Log ", "0", "x", "0", "2", ")">>
CriticalWarningLine == <<"Critical Warning", ":", " ", "0", "x", "0", "0">>
CriticalWarningBlank == <<"Critical Warning", ":">>
TemperatureLine == <<"Temperature", ":", " ", "4", "2", " ", "Celsius">>
PowerOnHoursLine == <<"Power On Hours", ":", " ", "5", ",", "8", "0", "9">>
PowerOnHoursPeriod == <<"Power On Hours", ":", " ", "5", ".", "8", "0", "9">>
PowerCyclesBlank == <<"Power Cycles", ":", " ">>
AttributeHeader == <<"ID#", " ", "ATTRIBUTE_NAME", " ", "FLAG", " ", "VALUE", " ",
                     "WORST", " ", "THRESH", " ", "TYPE", " ", "UPDATED", " ",
                     "WHEN_FAILED", " ", "RAW_VALUE">>
AttributeRow == <<" ", "9", " ", "Power_On_Hours", " ", "0x0032", " ", "0", "9", "5", " ",
                  "0", "9", "5", " ", "0", "0", "0", " ", "Old_age", " ", "Always", " ",
                  "-", " ", "2", "3", "2", "6", "8">>
AttributeRowMinMax ==
    <<"1", "9", "0", " ", "Airflow_Temperature_Cel", " ", "0x0022", " ", "0", "6", "2",
      " ", "0", "6", "0", " ", "0", "4", "0", " ", "Old_age", " ", "Always", " ",
      "-", " ", "3", "8", " ", "(Min/Max", " ", "22/40)">>

\* The lines smartctl may print after the prologue.
SmartLines ==
    {Blank, StartOfSmartData, HealthPassed, HealthFailed, StandbyLine, OpenFailed,
     UnableToDetect, NvmeLogHeader, CriticalWarningLine, CriticalWarningBlank, TemperatureLine,
     PowerOnHoursLine, PowerOnHoursPeriod, PowerCyclesBlank, AttributeHeader, AttributeRow}

\* The lines smartctl may print once it has opened the device: the section
\* markers, the health line and the lines of the two attribute blocks.
DataLines ==
    {Blank, StartOfInformation, StartOfSmartData, HealthPassed, HealthFailed,
     CriticalWarningLine, TemperatureLine, PowerOnHoursLine, PowerOnHoursPeriod,
     AttributeHeader, AttributeRow, AttributeRowMinMax}

----------------------------------------------------------------------------
(* Regular expressions and int(), as get_smart_data uses them. *)

Digits == {"0", "1", "2", "3", "4", "5", "6", "7", "8", "9"}

DigitValue(c) ==
    CASE c = "0" -> 0 [] c = "1" -> 1 [] c = "2" -> 2 [] c = "3" -> 3
      [] c = "4" -> 4 [] c = "5" -> 5 [] c = "6" -> 6 [] c = "7" -> 7
      [] c = "8" -> 8 [] OTHER -> 9

\* re.search(cls + "+$", line): the longest suffix of the line made of
\* characters of cls; the empty sequence when there is no match.
SearchAtEnd(line, cls) ==
    LET starts == {i \in 1..Len(line) : \A j \in i..Len(line) : line[j] \in cls}
    IN  IF starts = {} THEN << >> ELSE SubSeq(line, Min(starts), Len(line))

\* re.search(cls + "+", line): the leftmost, longest run of characters of
\* cls; the empty sequence when there is no match.
Search(line, cls) ==
    LET at == {i \in 1..Len(line) : line[i] \in cls}
    IN  IF at = {} THEN << >>
        ELSE LET first == Min(at)
                 ends == {j \in first..Len(line) : \A k \in first..j : line[k] \in cls}
             IN  SubSeq(line, first, CHOOSE j \in ends : \A k \in ends : k <= j)

\* re.sub(",", "", text)
RECURSIVE RemoveCommas(_)
RemoveCommas(text) ==
    IF text = << >> THEN << >>
    ELSE IF Head(text) = "," THEN RemoveCommas(Tail(text))
    ELSE <<Head(text)>> \o RemoveCommas(Tail(text))

\* The number a sequence of digits denotes in the given base.
RECURSIVE Number(_, _)
Number(digits, base) ==
    IF digits = << >> THEN 0
    ELSE Number(SubSeq(digits, 1, Len(digits) - 1), base) * base
         + DigitValue(digits[Len(digits)])

AllDigits(text) == text # << >> /\ \A i \in 1..Len(text) : text[i] \in Digits

\* int(text): ok is FALSE where int raises ValueError.
IntDecimal(text) ==
    IF AllDigits(text) THEN [ok |-> TRUE, value |-> Number(text, 10)]
    ELSE [ok |-> FALSE, value |-> 0]

\* int(text, 16), for text of digits, "x" and "X": an optional "0x" prefix,
\* then hexadecimal digits.
IntHex(text) ==
    LET prefixed == Len(text) >= 2 /\ text[1] = "0" /\ text[2] \in {"x", "X"}
        body == IF prefixed THEN SubSeq(text, 3, Len(text)) ELSE text
    IN  IF AllDigits(body) THEN [ok |-> TRUE, value |-> Number(body, 16)]
        ELSE [ok |-> FALSE, value |-> 0]

----------------------------------------------------------------------------
(* Disk.get_smart_data(): the parser of the smartctl output. *)

\* NvmeAttributes.__init__ and SmartAttribute.__init__ take this many
\* positional arguments besides self.
NvmeAttributesArity == 17
SmartAttributeArity == 10

\* Calling a constructor: Python raises TypeError unless every positional
\* parameter gets an argument.
NewNvmeAttributes(args) == IF Len(args) = NvmeAttributesArity THEN "none" ELSE "TypeError"
NewSmartAttribute(args) == IF Len(args) = SmartAttributeArity THEN "none" ELSE "TypeError"

\* DiskSmartData() followed by the three assignments every call makes;
\* `assigned` names the other attributes the object has got so far.
NewSmartData(out) ==
    [raw_output |-> out, standby_mode |-> FALSE, assigned |-> {},
     healthy |-> FALSE, smart_attributes |-> << >>, nvme_attributes |-> << >>]

\* How a call ends: the exception it raises, if any, the value it returns, if
\* any, and the number of lines it removed from output_lines.
SmartReturn(value, consumed) == [exc |-> "none", consumed |-> consumed, value |-> value]
SmartRaise(exc, value, consumed) == [exc |-> exc, consumed |-> consumed, value |-> value]

HexClass == Digits \cup {"x", "X"}
CommaClass == Digits \cup {","}

\* The nine `if` statements of the NVMe loop, in their order.
NvmeFields ==
    << [field |-> "critical_warning", label |-> <<"Critical Warning">>, prefix |-> FALSE,
        cls |-> HexClass, anchored |-> TRUE, hex |-> TRUE],
       [field |-> "temperature", label |-> <<"Temperature", ":">>, prefix |-> TRUE,
        cls |-> Digits, anchored |-> FALSE, hex |-> FALSE],
       [field |-> "data_units_read", label |-> <<"Data Units Read">>, prefix |-> FALSE,
        cls |-> CommaClass, anchored |-> FALSE, hex |-> FALSE],
       [field |-> "data_units_written", label |-> <<"Data Units Written">>, prefix |-> FALSE,
        cls |-> CommaClass, anchored |-> FALSE, hex |-> FALSE],
       [field |-> "power_cycles", label |-> <<"Power Cycles">>, prefix |-> FALSE,
        cls |-> CommaClass, anchored |-> TRUE, hex |-> FALSE],
       [field |-> "power_on_hours", label |-> <<"Power On Hours">>, prefix |-> FALSE,
        cls |-> CommaClass, anchored |-> TRUE, hex |-> FALSE],
       [field |-> "unsafe_shutdowns", label |-> <<"Unsafe Shutdowns">>, prefix |-> FALSE,
        cls |-> CommaClass, anchored |-> TRUE, hex |-> FALSE],
       [field |-> "media_and_data_integrity_errors",
        label |-> <<"Media and Data Integrity Errors">>, prefix |-> FALSE,
        cls |-> CommaClass, anchored |-> TRUE, hex |-> FALSE],
       [field |-> "error_information_log_entries",
        label |-> <<"Error Information Log Entries">>, prefix |-> FALSE,
        cls |-> CommaClass, anchored |-> TRUE, hex |-> FALSE] >>

\* One `if` statement of the NVMe loop applied to a line: na maps the fields
\* assigned so far to their values.
ParseNvmeField(line, f, na) ==
    LET applies == IF f.prefix THEN StartsWith(line, f.label) ELSE StrIn(f.label, line)
        mo == IF f.anchored THEN SearchAtEnd(line, f.cls) ELSE Search(line, f.cls)
        number == IF f.hex THEN IntHex(mo) ELSE IntDecimal(RemoveCommas(mo))
    IN  IF ~applies THEN [exc |-> "none", na |-> na]
        ELSE IF mo = << >> THEN [exc |-> "RuntimeError", na |-> na]
        ELSE IF ~number.ok THEN [exc |-> "ValueError", na |-> na]
        ELSE [exc |-> "none",
              na |-> [x \in DOMAIN na \cup {f.field} |->
                         IF x = f.field THEN number.value ELSE na[x]]]

\* The body of the NVMe loop for one line: the statements from the k-th on.
RECURSIVE ParseNvmeLine(_, _, _)
ParseNvmeLine(line, k, na) ==
    IF k > Len(NvmeFields) THEN [exc |-> "none", na |-> na]
    ELSE LET r == ParseNvmeField(line, NvmeFields[k], na)
         IN  IF r.exc # "none" THEN r ELSE ParseNvmeLine(line, k + 1, r.na)

\* while output_lines[0]: ... del output_lines[0]
RECURSIVE ParseNvme(_, _, _)
ParseNvme(lines, na, consumed) ==
    IF lines = << >> THEN [exc |-> "IndexError", na |-> na, consumed |-> consumed]
    ELSE IF Head(lines) = Blank THEN [exc |-> "none", na |-> na, consumed |-> consumed]
    ELSE LET r == ParseNvmeLine(Head(lines), 1, na)
         IN  IF r.exc # "none" THEN [exc |-> r.exc, na |-> r.na, consumed |-> consumed]
             ELSE ParseNvme(Tail(lines), r.na, consumed + 1)

\* re.sub(" +", " ", line).split(): the words between the spaces.
RECURSIVE Split(_)
Split(line) ==
    IF line = << >> THEN << >>
    ELSE IF Head(line) = " " THEN Split(Tail(line))
    ELSE LET spaces == {i \in 1..Len(line) : line[i] = " "}
             stop == IF spaces = {} THEN Len(line) + 1 ELSE Min(spaces)
         IN  <<SubSeq(line, 1, stop - 1)>> \o Split(SubSeq(line, stop, Len(line)))

\* The columns of a row that int() converts.
NumericColumns == {1, 4, 5, 6, 10}

\* The ten assignments of the attribute loop for one row: the k-th reads
\* split[k - 1], and int() converts it where the column is numeric.
ParseSmartRow(line) ==
    LET split == Split(line)
        made == NewSmartAttribute(<< >>)
        Fails(k) == k > Len(split) \/ (k \in NumericColumns /\ ~IntDecimal(split[k]).ok)
        failing == {k \in 1..SmartAttributeArity : Fails(k)}
        sa == [id |-> IntDecimal(split[1]).value, attribute_name |-> split[2],
               flag |-> split[3], value |-> IntDecimal(split[4]).value,
               worst |-> IntDecimal(split[5]).value, thresh |-> IntDecimal(split[6]).value,
               type |-> split[7], updated |-> split[8], when_failed |-> split[9],
               raw_value |-> IntDecimal(split[10]).value]
    IN  IF made # "none" THEN [exc |-> made, sa |-> << >>]
        ELSE IF failing # {}
        THEN [exc |-> IF Min(failing) > Len(split) THEN "IndexError" ELSE "ValueError",
              sa |-> << >>]
        ELSE [exc |-> "none", sa |-> <<sa>>]

\* while output_lines[0]: ... value.smart_attributes.append(sa) ...
RECURSIVE ParseSmart(_, _, _)
ParseSmart(lines, attributes, consumed) ==
    IF lines = << >>
    THEN [exc |-> "IndexError", attributes |-> attributes, consumed |-> consumed]
    ELSE IF Head(lines) = Blank
    THEN [exc |-> "none", attributes |-> attributes, consumed |-> consumed]
    ELSE LET r == ParseSmartRow(Head(lines))
         IN  IF r.exc # "none"
             THEN [exc |-> r.exc, attributes |-> attributes, consumed |-> consumed]
             ELSE ParseSmart(Tail(lines), attributes \o r.sa, consumed + 1)

\* while not output_lines[0].startswith(label): del output_lines[0]
\* The number of lines removed, or -1 where the list runs out (IndexError).
SkipTo(lines, label) ==
    LET at == {i \in 1..Len(lines) : StartsWith(lines[i], label)}
    IN  IF at = {} THEN -1 ELSE Min(at) - 1

IsDataSection(line) == StartsWith(line, <<"===">>)
IsStandby_prefix(line) == StartsWith(line, <<"STANDBY">>)
IsStandby(line) == StrIn(<<"STANDBY">>, line)
IsOpenError(line) == StrIn(<<"Smartctl open device">>, line)

\* The NVMe branch, entered with the health line first in lines.
SmartDataNvme(value, lines, consumed) ==
    LET skip == SkipTo(lines, <<"Critical Warning">>)
        made == NewNvmeAttributes(<< >>)
        r == ParseNvme(SubSeq(lines, skip + 1, Len(lines)), << >>, consumed + skip)
    IN  IF skip < 0 THEN SmartRaise("IndexError", value, consumed + Len(lines))
        ELSE IF made # "none" THEN SmartRaise(made, value, consumed + skip)
        ELSE IF r.exc # "none" THEN SmartRaise(r.exc, value, r.consumed)
        ELSE SmartReturn([value EXCEPT !.nvme_attributes = r.na,
                                       !.assigned = @ \cup {"nvme_attributes"}],
                         r.consumed)

\* The branch of HDDs and SSDs, entered with the health line first in lines.
SmartDataAta(value, lines, consumed) ==
    LET skip == SkipTo(lines, <<"ID#">>)
        listed == [value EXCEPT !.assigned = @ \cup {"smart_attributes"}]
        r == ParseSmart(SubSeq(lines, skip + 2, Len(lines)), << >>, consumed + skip + 1)
    IN  IF skip < 0 THEN SmartRaise("IndexError", value, consumed + Len(lines))
        ELSE IF r.exc # "none"
        THEN SmartRaise(r.exc, [listed EXCEPT !.smart_attributes = r.attributes], r.consumed)
        ELSE SmartReturn([listed EXCEPT !.smart_attributes = r.attributes], r.consumed)

\* get_smart_data() that reads the attribute table whatever the disk is.
GetSmartData_table_only(d, out) ==
    LET value == NewSmartData(out)
        prologue == IF Len(out) < 3 THEN Len(out) ELSE 3
        lines == SubSeq(out, prologue + 1, Len(out))
        rest == Tail(lines)
        judged == [value EXCEPT !.healthy = StrIn(<<"PASSED">>, Head(rest)),
                                !.assigned = @ \cup {"healthy"}]
    IN  IF lines = << >> THEN SmartRaise("IndexError", value, prologue)
        ELSE IF IsDataSection(Head(lines))
        THEN IF rest = << >> THEN SmartRaise("IndexError", value, prologue + 1)
             ELSE SmartDataAta(judged, rest, prologue + 1)
        ELSE LET seen == [value EXCEPT !.standby_mode = IsStandby(Head(lines))]
             IN  IF IsOpenError(Head(lines)) THEN SmartRaise("RuntimeError", seen, prologue)
                 ELSE SmartReturn(seen, prologue)

\* get_smart_data() of disk d, where smartctl printed the lines of out.
GetSmartData(d, out) ==
    LET value == NewSmartData(out)
        prologue == IF Len(out) < 3 THEN Len(out) ELSE 3
        lines == SubSeq(out, prologue + 1, Len(out))
        rest == Tail(lines)
        judged == [value EXCEPT !.healthy = StrIn(<<"PASSED">>, Head(rest)),
                                !.assigned = @ \cup {"healthy"}]
    IN  IF lines = << >> THEN SmartRaise("IndexError", value, prologue)
        ELSE IF IsDataSection(Head(lines))
        THEN IF rest = << >> THEN SmartRaise("IndexError", value, prologue + 1)
             ELSE IF is_nvme(d) THEN SmartDataNvme(judged, rest, prologue + 1)
             ELSE SmartDataAta(judged, rest, prologue + 1)
        ELSE LET seen == [value EXCEPT !.standby_mode = IsStandby(Head(lines))]
             IN  IF IsOpenError(Head(lines)) THEN SmartRaise("RuntimeError", seen, prologue)
                 ELSE SmartReturn(seen, prologue)

----------------------------------------------------------------------------
(* The state machine of Disk construction. *)

NoCall == Call(EmptyStr, EmptyStr, EmptyStr, EmptyStr, EmptyStr)

\* Before any call: nothing was returned and nothing was raised.
NoResult == [exc |-> "nocall", at |-> "", io |-> 0, disk |-> NoDisk]

NoSmart == [exc |-> "nocall"]

\* No DiskInfo has been made; no method of it has been called.
NoInfo == [exc |-> "nocall", disk_list |-> << >>]
NoAnswer == [op |-> "nocall"]

\* No partition's files are looked at; no Partition has been made.
NoUdev ==
    [node |-> FALSE, data |-> FALSE,
     entry |-> [scheme |-> EmptyStr, number |-> EmptyStr,
                offset |-> EmptyStr, size |-> EmptyStr],
     lines |-> << >>, df |-> [run |-> FALSE, rows |-> << >>]]
NoPartition == [exc |-> "nocall"]

\* The identifiers callers pass: those of the devices of the universe, and
\* some that belong to no device.
NameKeys == DeviceNames \cup {sdz}
SerialKeys == {<<"S", "1">>, <<"S", "2">>, <<"S", "3">>, <<"S", "9">>}
WwnKeys == {<<"5", "a">>, <<"5", "a", "b">>, <<"e", "1">>, <<"5">>, <<"9">>}
ByidKeys == {<<"a", "1">>, <<"w", "1">>, <<"a", "2">>, <<"w", "2">>,
             <<"n", "3">>, <<"x", "9">>}
BypathKeys == {<<"p", "1">>, <<"p", "2">>, <<"p", "3">>, <<"p", "9">>}

Init ==
    /\ host \in Hosts
    /\ call = NoCall
    /\ result = NoResult
    /\ stdout = << >>
    /\ smart = NoSmart
    /\ di = NoInfo
    /\ answer = NoAnswer
    /\ udev = NoUdev
    /\ part = NoPartition

Construct(c) ==
    /\ call' = c
    /\ result' = DiskInit(host, c)
    /\ UNCHANGED <<host, stdout, smart, di, answer, udev, part>>

ConstructByName ==
    \E n \in NameKeys : Construct(Call(n, EmptyStr, EmptyStr, EmptyStr, EmptyStr))

ConstructBySerial ==
    \E k \in SerialKeys : Construct(Call(EmptyStr, k, EmptyStr, EmptyStr, EmptyStr))

ConstructByWwn ==
    \E k \in WwnKeys : Construct(Call(EmptyStr, EmptyStr, k, EmptyStr, EmptyStr))

ConstructByByid ==
    \E k \in ByidKeys : Construct(Call(EmptyStr, EmptyStr, EmptyStr, k, EmptyStr))

ConstructByBypath ==
    \E k \in BypathKeys : Construct(Call(EmptyStr, EmptyStr, EmptyStr, EmptyStr, k))

ConstructWithoutIdentifier == Construct(NoCall)

Next ==
    \/ ConstructByName
    \/ ConstructBySerial
    \/ ConstructByWwn
    \/ ConstructByByid
    \/ ConstructByBypath
    \/ ConstructWithoutIdentifier

Spec == Init /\ [][Next]_vars

\* Calls that pass any number of the five identifiers at once: each keyword
\* is left out or names something, and the things named are not the same
\* device (sdb or a name without device, the serial number of sda or one of
\* no device, a WWN found in sda's and in sdb's, the by-id link of nvme0n1
\* or one that does not exist, the by-path link of sdb).
KeyChoices ==
    [disk_name : {EmptyStr, sdb, sdz},
     serial_number : {EmptyStr, <<"S", "1">>, <<"S", "9">>},
     wwn : {EmptyStr, <<"5", "a">>},
     byid_name : {EmptyStr, <<"n", "3">>, <<"x", "9">>},
     bypath_name : {EmptyStr, <<"p", "2">>}]

\* One construction per behaviour: the constructor reads the host only and
\* no construction changes the host, so a second call sees what the first saw.
ConstructWithKeys ==
    /\ call = NoCall
    /\ result = NoResult
    /\ \E c \in KeyChoices : Construct(c)

NextKeys == ConstructWithKeys

SpecKeys == Init /\ [][NextKeys]_vars

----------------------------------------------------------------------------
(* The state machine of get_smart_data(): smartctl prints its lines, then   *)
(* the method parses them.                                                  *)

\* smartctl prints at most this many lines after the prologue.
MaxLines == 3

\* A host with a hard disk, a solid-state disk and an NVMe disk.
SmartHost ==
    [blk |-> <<BlockDevice(sda, <<"1">>), BlockDevice(sdb, <<"0">>),
               BlockDevice(nvme0n1, <<"0">>)>>,
     links |-> "live"]

InitSmart ==
    /\ host = SmartHost
    /\ call \in {Call(n, EmptyStr, EmptyStr, EmptyStr, EmptyStr) : n \in {sda, sdb, nvme0n1}}
    /\ result = DiskInit(host, call)
    /\ stdout = << >>
    /\ smart = NoSmart
    /\ di = NoInfo
    /\ answer = NoAnswer
    /\ udev = NoUdev
    /\ part = NoPartition

\* subprocess.run is waiting for smartctl, which prints its next line.
SmartctlPrints ==
    /\ smart = NoSmart
    /\ \E line \in SmartLines \cup {Banner, Copyright} :
          /\ IF Len(stdout) < Len(Prologue)
             THEN line = Prologue[Len(stdout) + 1]
             ELSE line \in SmartLines /\ Len(stdout) < Len(Prologue) + MaxLines
          /\ stdout' = Append(stdout, line)
    /\ UNCHANGED <<host, call, result, smart, di, answer, udev, part>>

\* smartctl exits and get_smart_data() parses what it printed.
SmartctlExits ==
    /\ smart = NoSmart
    /\ smart' = GetSmartData(result.disk, stdout)
    /\ UNCHANGED <<host, call, result, stdout, di, answer, udev, part>>

\* get_smart_data() is called again and starts smartctl anew.
SmartctlStarts ==
    /\ smart # NoSmart
    /\ smart' = NoSmart
    /\ stdout' = << >>
    /\ UNCHANGED <<host, call, result, di, answer, udev, part>>

NextSmart ==
    \/ SmartctlPrints
    \/ SmartctlExits
    \/ SmartctlStarts

SpecSmart == InitSmart /\ [][NextSmart]_vars

\* smartctl prints at most this many lines after the prologue when it has
\* opened the device and reports its data.
MaxDataLines == 5

\* subprocess.run is waiting for smartctl, which has opened the device and
\* prints the next line of its report.
SmartctlPrintsData ==
    /\ smart = NoSmart
    /\ \E line \in DataLines \cup {Banner, Copyright} :
          /\ IF Len(stdout) < Len(Prologue)
             THEN line = Prologue[Len(stdout) + 1]
             ELSE line \in DataLines /\ Len(stdout) < Len(Prologue) + MaxDataLines
          /\ stdout' = Append(stdout, line)
    /\ UNCHANGED <<host, call, result, smart, di, answer, udev, part>>

NextSmartData ==
    \/ SmartctlPrintsData
    \/ SmartctlExits
    \/ SmartctlStarts

SpecSmartData == InitSmart /\ [][NextSmartData]_vars

----------------------------------------------------------------------------
(* DiskInfo: discovery of the disks, and the filtered, sorted lists. *)

\* DiskInfo.__init__ from the entry names on: Disk(disk_name=file_name) for
\* each entry of /sys/block, appended to the list; an exception of Disk()
\* leaves the loop and the constructor.
RECURSIVE Discover(_, _, _)
Discover(h, names, disk_list) ==
    IF names = << >> THEN [exc |-> "none", disk_list |-> disk_list]
    ELSE LET r == DiskInit(h, Call(Head(names), EmptyStr, EmptyStr, EmptyStr, EmptyStr))
         IN  IF r.exc # "none" THEN [exc |-> r.exc, disk_list |-> << >>]
             ELSE Discover(h, Tail(names), Append(disk_list, r.disk))

\* A discovery that leaves out the entries whose construction fails and
\* keeps the disks of the others.
RECURSIVE DiscoverSkipping(_, _, _)
DiscoverSkipping(h, names, disk_list) ==
    IF names = << >> THEN [exc |-> "none", disk_list |-> disk_list]
    ELSE LET r == DiskInit(h, Call(Head(names), EmptyStr, EmptyStr, EmptyStr, EmptyStr))
         IN  DiscoverSkipping(h, Tail(names),
                              IF r.exc # "none" THEN disk_list
                              ELSE Append(disk_list, r.disk))

DiskInfoInit_skips_failures(h) == DiscoverSkipping(h, ListDir(h), << >>)

\* Lines 35-44: DiskInfo().
DiskInfoInit(h) == Discover(h, ListDir(h), << >>)

\* The code point of a character of a disk name.
Ord(c) ==
    CASE c = "0" -> 48 [] c = "1" -> 49 [] c = "a" -> 97 [] c = "b" -> 98
      [] c = "d" -> 100 [] c = "e" -> 101 [] c = "l" -> 108 [] c = "m" -> 109
      [] c = "n" -> 110 [] c = "o" -> 111 [] c = "p" -> 112 [] c = "s" -> 115
      [] c = "v" -> 118 [] OTHER -> 122

\* Python's a < b for strings.
RECURSIVE StrLess(_, _)
StrLess(a, b) ==
    IF b = << >> THEN FALSE
    ELSE IF a = << >> THEN TRUE
    ELSE IF Head(a) = Head(b) THEN StrLess(Tail(a), Tail(b))
    ELSE Ord(Head(a)) < Ord(Head(b))

\* Disk.__lt__
DiskLess(d, e) == StrLess(d.name, e.name)

Reverse(l) == [i \in 1..Len(l) |-> l[Len(l) + 1 - i]]

\* The place of d in an ascending list: after every element that is not
\* greater than d, which keeps the sort stable.
RECURSIVE Insert(_, _)
Insert(d, sorted) ==
    IF sorted = << >> THEN <<d>>
    ELSE IF DiskLess(d, Head(sorted)) THEN <<d>> \o sorted
    ELSE <<Head(sorted)>> \o Insert(d, Tail(sorted))

RECURSIVE SortAscending(_)
SortAscending(l) ==
    IF l = << >> THEN << >>
    ELSE Insert(l[Len(l)], SortAscending(SubSeq(l, 1, Len(l) - 1)))

\* list.sort that takes no notice of reverse.
ListSort_ascending_only(l, rev_order) == SortAscending(l)

\* list.sort(reverse=rev_order): a stable sort by __lt__; with reverse the
\* list is reversed, sorted and reversed again.
ListSort(l, rev_order) ==
    IF rev_order THEN Reverse(SortAscending(Reverse(l))) ELSE SortAscending(l)

\* The filter sets after the defaults are put in: None and the empty set are
\* both false in `if not included`.
DefaultIncluded == {HDD, SSD, NVME}

\* Filters for which a missing included set stays empty.
EffectiveIncluded_no_default(included) == included

EffectiveIncluded(included) == IF included = {} THEN DefaultIncluded ELSE included

\* A selection that joins the two filter tests with `or`.
RECURSIVE Select_either(_, _, _)
Select_either(disk_list, included, excluded) ==
    IF disk_list = << >> THEN << >>
    ELSE LET disk_type == get_type(Head(disk_list))
             rest == Select_either(Tail(disk_list), included, excluded)
         IN  IF disk_type \in included \/ disk_type \notin excluded
             THEN <<Head(disk_list)>> \o rest
             ELSE rest

\* The disks of the list that the filters select, in the order of the list.
RECURSIVE Select(_, _, _)
Select(disk_list, included, excluded) ==
    IF disk_list = << >> THEN << >>
    ELSE LET disk_type == get_type(Head(disk_list))
             rest == Select(Tail(disk_list), included, excluded)
         IN  IF disk_type \in included /\ disk_type \notin excluded
             THEN <<Head(disk_list)>> \o rest
             ELSE rest

\* get_disk_number that checks the filters after it has counted.
GetDiskNumber_check_last(disk_list, included, excluded) ==
    LET inc == EffectiveIncluded(included)
    IN  IF inc \cap excluded # {}
        THEN [exc |-> "ValueError", value |-> 0, examined |-> Len(disk_list)]
        ELSE [exc |-> "none", value |-> Len(Select(disk_list, inc, excluded)),
              examined |-> Len(disk_list)]

\* get_disk_number(included, excluded): examined counts the disks that the
\* loop looked at.
GetDiskNumber(disk_list, included, excluded) ==
    LET inc == EffectiveIncluded(included)
    IN  IF inc \cap excluded # {}
        THEN [exc |-> "ValueError", value |-> 0, examined |-> 0]
        ELSE [exc |-> "none", value |-> Len(Select(disk_list, inc, excluded)),
              examined |-> Len(disk_list)]

\* get_disk_list(included, excluded, sorting, rev_order): disk_list is the
\* list of the DiskInfo object as the call leaves it.
GetDiskList(disk_list, included, excluded, sorting, rev_order) ==
    LET inc == EffectiveIncluded(included)
        selected == Select(disk_list, inc, excluded)
    IN  IF inc \cap excluded # {}
        THEN [exc |-> "ValueError", value |-> << >>, examined |-> 0,
              disk_list |-> disk_list]
        ELSE [exc |-> "none",
              value |-> IF sorting THEN ListSort(selected, rev_order) ELSE selected,
              examined |-> Len(disk_list), disk_list |-> disk_list]

\* DiskInfo.__contains__
DiskInfoContains(disk_list, item) ==
    \E i \in 1..Len(disk_list) : item.serial_number = disk_list[i].serial_number

----------------------------------------------------------------------------
(* The state machine of DiskInfo. *)

\* A host as DiskInfo() finds it: every symlink of /dev/disk in place.
InfoHosts == {h \in Hosts : h.links = "live"}

\* The filter sets a caller may pass; the empty set stands for None too.
TypeSets == SUBSET {HDD, SSD, NVME, LOOP}

InitInfo ==
    /\ host \in InfoHosts
    /\ call = NoCall
    /\ result = NoResult
    /\ stdout = << >>
    /\ smart = NoSmart
    /\ di = NoInfo
    /\ answer = NoAnswer
    /\ udev = NoUdev
    /\ part = NoPartition

\* di = DiskInfo()
DiskInfoNew ==
    /\ di = NoInfo
    /\ di' = DiskInfoInit(host)
    /\ UNCHANGED <<host, call, result, stdout, smart, answer, udev, part>>

\* di.get_disk_number(included, excluded)
CallGetDiskNumber ==
    /\ di.exc = "none"
    /\ answer = NoAnswer
    /\ \E included \in TypeSets, excluded \in TypeSets :
          answer' = [op |-> "get_disk_number", included |-> included,
                     excluded |-> excluded, sorting |-> FALSE, rev_order |-> FALSE,
                     before |-> di.disk_list,
                     ret |-> GetDiskNumber(di.disk_list, included, excluded)]
    /\ UNCHANGED <<host, call, result, stdout, smart, di, udev, part>>

\* di.get_disk_list(included, excluded, sorting, rev_order)
CallGetDiskList ==
    /\ di.exc = "none"
    /\ answer = NoAnswer
    /\ \E included \in TypeSets, excluded \in TypeSets, sorting \in BOOLEAN,
          rev_order \in BOOLEAN :
          LET ret == GetDiskList(di.disk_list, included, excluded, sorting, rev_order)
          IN  /\ answer' = [op |-> "get_disk_list", included |-> included,
                            excluded |-> excluded, sorting |-> sorting,
                            rev_order |-> rev_order, before |-> di.disk_list,
                            ret |-> [exc |-> ret.exc, value |-> ret.value,
                                     examined |-> ret.examined]]
              /\ di' = [di EXCEPT !.disk_list = ret.disk_list]
    /\ UNCHANGED <<host, call, result, stdout, smart, udev, part>>

\* The caller has used what the method gave and goes on.
AnswerUsed ==
    /\ answer # NoAnswer
    /\ answer' = NoAnswer
    /\ UNCHANGED <<host, call, result, stdout, smart, di, udev, part>>

NextInfo ==
    \/ DiskInfoNew
    \/ CallGetDiskNumber
    \/ CallGetDiskList
    \/ AnswerUsed

SpecInfo == InitInfo /\ [][NextInfo]_vars

\* A second loop device, attached after DiskInfo() has run.
loop1 == <<"l", "o", "o", "p", "1">>

\* losetup attaches loop1: a new entry of /sys/block.
Hotplug ==
    /\ di.exc = "none"
    /\ IndexOfName(host, loop1) = 0
    /\ host' = [host EXCEPT !.blk = Append(@, BlockDevice(loop1, <<"0">>))]
    /\ UNCHANGED <<call, result, stdout, smart, di, answer, udev, part>>

\* d = Disk(name) for a device that is there.
ConstructPresent ==
    /\ di.exc = "none"
    /\ \E i \in 1..Len(host.blk) :
          Construct(Call(host.blk[i].name, EmptyStr, EmptyStr, EmptyStr, EmptyStr))

\* d in di
CallContains ==
    /\ di.exc = "none"
    /\ result.exc = "none"
    /\ answer = NoAnswer
    /\ answer' = [op |-> "contains", item |-> result.disk, before |-> di.disk_list,
                  ret |-> DiskInfoContains(di.disk_list, result.disk)]
    /\ UNCHANGED <<host, call, result, stdout, smart, di, udev, part>>

NextContains ==
    \/ DiskInfoNew
    \/ Hotplug
    \/ ConstructPresent
    \/ CallContains
    \/ AnswerUsed

SpecContains == InitInfo /\ [][NextContains]_vars

----------------------------------------------------------------------------
(* Partition (partition.py) and the udev readers of utils.py.              *)
(*                                                                         *)
(* A line of the udev data file is a sequence of atoms: the "S:" or "E:"   *)
(* tag, words, and each "/" on its own, so that str.find of                *)
(* "disk/by-id/" is a search for the atoms "disk", "/", "by-id", "/".      *)

\* The partition the model constructs, and its device id.
sda1 == <<"s", "d", "a", "1">>
sda1_dev == <<"8", ":", "1">>

\* text.find(sub): the least position (from 1) where sub occurs in text;
\* 0 where Python gives -1.
Find(text, sub) ==
    LET hits == {i \in 1..(Len(text) - Len(sub) + 1) :
                    SubSeq(text, i, i + Len(sub) - 1) = sub}
    IN  IF hits = {} THEN 0 ELSE Min(hits)

\* text.strip()
RECURSIVE Strip(_)
Strip(text) ==
    IF text = << >> THEN text
    ELSE IF Head(text) = " " THEN Strip(Tail(text))
    ELSE IF text[Len(text)] = " " THEN Strip(SubSeq(text, 1, Len(text) - 1))
    ELSE text

\* open(path, encoding="unicode_escape"): an escape sequence of the file
\* becomes the character it names; udev writes "/" in a label as \x2f.
UnicodeEscape(line) ==
    [i \in 1..Len(line) |-> IF line[i] = "\\x2f" THEN "/" ELSE line[i]]

\* The text _read_udev_path looks for, by path type (0 to 5).
UdevPathProperty(path_type) ==
    CASE path_type = 0 -> <<"disk", "/", "by-id", "/">>
      [] path_type = 1 -> <<"disk", "/", "by-path", "/">>
      [] path_type = 2 -> <<"disk", "/", "by-partuuid", "/">>
      [] path_type = 3 -> <<"disk", "/", "by-partlabel", "/">>
      [] path_type = 4 -> <<"disk", "/", "by-label", "/">>
      [] OTHER -> <<"disk", "/", "by-uuid", "/">>

\* _read_udev_path(path, path_type) on a file with the lines file_content:
\* for every line where the text is found, "/dev/" and the line from the
\* place it was found, in file order.
read_udev_path(file_content, path_type) ==
    LET udev_property == UdevPathProperty(path_type)
        decoded == [i \in 1..Len(file_content) |-> UnicodeEscape(file_content[i])]
        Found(lines) == Find(lines, udev_property) # 0
        matching == SelectSeq(decoded, Found)
    IN  [i \in 1..Len(matching) |->
            <<"/dev/">> \o Strip(SubSeq(matching[i],
                                        Find(matching[i], udev_property),
                                        Len(matching[i])))]

\* path_list[0] if the list is not empty, "" otherwise.
FirstOrEmpty(path_list) == IF path_list # << >> THEN path_list[1] ELSE EmptyStr

\* The "S:" lines udev may write for the partition: two by-id links, one
\* link of each other directory the package reads, a by-diskseq link, and
\* the by-partlabel link of a partition whose label is "disk/by-id/backup".
UdevLinks ==
    LET Link(dir, link) == <<"S:", "disk", "/", dir, "/">> \o link
    IN  {Link("by-id", <<"ata-Samsung-part1">>),
         Link("by-id", <<"wwn-0xabc-part1">>),
         Link("by-path", <<"pci-0000:00:17.0-ata-1-part1">>),
         Link("by-partuuid", <<"acb8374d">>),
         Link("by-partlabel", <<"EFI">>),
         Link("by-label", <<"SYSTEM">>),
         Link("by-uuid", <<"6432-935A">>),
         Link("by-diskseq", <<"9-part1">>),
         Link("by-partlabel", <<"disk", "\\x2f", "by-id", "\\x2f", "backup">>)}

\* The "E:" lines of the file, by property: the partition scheme stands for
\* the string properties, which are stored as read; number, offset and size
\* go through int().
CompleteEntry ==
    [scheme |-> <<"gpt">>, number |-> <<"1">>,
     offset |-> <<"2", "0", "4", "8">>, size |-> <<"8">>]
NoEntry ==
    [scheme |-> EmptyStr, number |-> EmptyStr, offset |-> EmptyStr, size |-> EmptyStr]

\* _read_udev_property(path, property)
read_udev_property(u, property) == u.entry[property]

\* A line of `df --block-size 512 --output=source,avail,target` for one
\* mounted file system: the three columns with spaces between them.
DfLine(row) == row.source \o <<" ", " ">> \o row.avail \o <<" ">> \o row.target

\* What df prints for the mounted file systems rows: the header and a line
\* for each; nothing at all when there is no row to show.
DfStdout(rows) ==
    IF rows = << >> THEN << >>
    ELSE <<<<"Filesystem", " ", "Avail", " ", "Mounted", " ", "on">>>>
         \o [i \in 1..Len(rows) |-> DfLine(rows[i])]

\* The runs of df: run is FALSE when subprocess.run raises FileNotFoundError
\* (no df); rows are the mounted file systems.  The partition is mounted on
\* /boot, on a directory with a space in its name, twice, or not at all; df
\* shows "-" where it has no number.
DfOutputs ==
    LET row == [source |-> <<"/dev/">> \o sda1, avail |-> <<"1", "0", "2", "4">>,
                target |-> <<"/boot">>]
        bind == [row EXCEPT !.target = <<"/mnt/bind">>]
        spaced == [row EXCEPT !.target = <<"/media/", "My", " ", "Passport">>]
        dash == [row EXCEPT !.avail = <<"-">>]
        other == [source |-> <<"/dev/", "s", "d", "b", "1">>, avail |-> <<"2", "0">>,
                  target |-> <<"/">>]
    IN  {[run |-> FALSE, rows |-> << >>]} \cup
        {[run |-> TRUE, rows |-> r] :
            r \in {<< >>, <<row>>, <<other>>, <<other, row>>, <<row, bind>>,
                   <<spaced>>, <<dash>>}}

PartitionRaise(exc) == [exc |-> exc]

\* The loop over the lines of df: the first line whose source is the
\* partition's path gives free size and mounting point.
RECURSIVE DfScan(_, _, _)
DfScan(output_lines, path, p) ==
    IF output_lines = << >> THEN p
    ELSE LET items == Split(Head(output_lines))
         IN  IF Len(items) < 1 THEN PartitionRaise("IndexError")
             ELSE IF items[1] # path THEN DfScan(Tail(output_lines), path, p)
             ELSE IF Len(items) < 2 THEN PartitionRaise("IndexError")
             ELSE IF ~IntDecimal(items[2]).ok THEN PartitionRaise("ValueError")
             ELSE IF Len(items) < 3 THEN PartitionRaise("IndexError")
             ELSE [p EXCEPT !.fs_free_size = IntDecimal(items[2]).value,
                            !.fs_mounting_point = items[3]]

\* Partition(name, dev_id), with df printing the output df.
PartitionInit(u, name, dev_id, df) ==
    LET path == <<"/dev/">> \o name
        number == IntDecimal(read_udev_property(u, "number"))
        offset == IntDecimal(read_udev_property(u, "offset"))
        size == IntDecimal(read_udev_property(u, "size"))
        p == [exc |-> "none", name |-> name, path |-> path, part_dev_id |-> dev_id,
              byid_path |-> read_udev_path(u.lines, 0),
              bypath_path |-> FirstOrEmpty(read_udev_path(u.lines, 1)),
              bypartuuid_path |-> FirstOrEmpty(read_udev_path(u.lines, 2)),
              bypartlabel_path |-> FirstOrEmpty(read_udev_path(u.lines, 3)),
              bylabel_path |-> FirstOrEmpty(read_udev_path(u.lines, 4)),
              byuuid_path |-> FirstOrEmpty(read_udev_path(u.lines, 5)),
              part_scheme |-> read_udev_property(u, "scheme"),
              part_number |-> number.value, part_offset |-> offset.value,
              part_size |-> size.value,
              fs_free_size |-> 0, fs_mounting_point |-> EmptyStr]
    IN  IF ~u.node THEN PartitionRaise("ValueError")
        ELSE IF ~u.data THEN PartitionRaise("ValueError")
        ELSE IF ~(number.ok /\ offset.ok /\ size.ok) THEN PartitionRaise("ValueError")
        ELSE IF ~df.run THEN PartitionRaise("FileNotFoundError")
        ELSE DfScan(DfStdout(df.rows), path, p)

\* The largest number of "S:" lines of the udev data file.
MaxUdevLinks == 3

\* /dev/sda1 and /run/udev/data/b8:1 are there or not; the file starts
\* without links; df is there or not, with some file systems mounted.
InitPartition ==
    /\ host = SmartHost
    /\ call = NoCall
    /\ result = NoResult
    /\ stdout = << >>
    /\ smart = NoSmart
    /\ di = NoInfo
    /\ answer = NoAnswer
    /\ udev \in {[node |-> n, data |-> d, entry |-> e, lines |-> << >>, df |-> f] :
                    n \in BOOLEAN, d \in BOOLEAN, e \in {CompleteEntry, NoEntry},
                    f \in DfOutputs}
    /\ part = NoPartition

\* udev creates one more symlink for the partition and records it.
UdevAddsLink ==
    /\ part = NoPartition
    /\ udev.data
    /\ Len(udev.lines) < MaxUdevLinks
    /\ \E line \in UdevLinks : udev' = [udev EXCEPT !.lines = Append(@, line)]
    /\ UNCHANGED <<host, call, result, stdout, smart, di, answer, part>>

\* p = Partition("sda1", "8:1")
PartitionNew ==
    /\ part = NoPartition
    /\ part' = PartitionInit(udev, sda1, sda1_dev, udev.df)
    /\ UNCHANGED <<host, call, result, stdout, smart, di, answer, udev>>

NextPartition ==
    \/ UdevAddsLink
    \/ PartitionNew

SpecPartition == InitPartition /\ [][NextPartition]_vars

----------------------------------------------------------------------------
(* size_in_hrf (utils.py) and Disk.get_size_in_hrf (disk.py).              *)
(*                                                                         *)
(* Python's integers have no width and 1000^7 is beyond the integers of    *)
(* the model, so a byte count is written in the base of the divider,       *)
(* lowest digit first and without a leading zero digit; << >> is 0.  The   *)
(* float hrf_size is the pair of a byte count and the number of divisions  *)
(* by the divider made on it; the rounding of floats is not modelled.      *)

\* metric_units, iec_units, legacy_units, chosen as the code chooses them.
UnitTable(units) ==
    CASE units = 0 -> <<"B", "kB", "MB", "GB", "TB", "PB", "EB">>
      [] units = 1 -> <<"B", "KiB", "MiB", "GiB", "TiB", "PiB", "EiB">>
      [] OTHER -> <<"B", "KB", "MB", "GB", "TB", "PB", "EB">>

Divider(units) == IF units = 0 THEN 1000 ELSE 1024

\* digits * m + carry in base d, for a small m.
RECURSIVE TimesSmall(_, _, _, _)
TimesSmall(digits, m, d, carry) ==
    IF digits = << >>
    THEN IF carry = 0 THEN << >>
         ELSE <<carry % d>> \o TimesSmall(<< >>, m, d, carry \div d)
    ELSE LET v == Head(digits) * m + carry
         IN  <<v % d>> \o TimesSmall(Tail(digits), m, d, v \div d)

\* for index in range(number_of_units): if hrf_size < divider: break;
\* hrf_size /= divider.  A count of bytes divided `divided` times is below
\* the divider when it has at most divided + 1 digits.  When the range runs
\* out, index keeps its last value and the last division has been made.
RECURSIVE HrfLoop(_, _, _)
HrfLoop(digits, index, divided) ==
    IF Len(digits) <= divided + 1 THEN [index |-> index, divided |-> divided]
    ELSE IF index = Len(UnitTable(0)) - 1
         THEN [index |-> index, divided |-> divided + 1]
         ELSE HrfLoop(digits, index + 1, divided + 1)

\* The body the two functions share; size_in_hrf checks its parameters
\* first, Disk.get_size_in_hrf does not.
SizeInHrf(bytes, units, checked) ==
    LET r == HrfLoop(bytes.digits, 0, 0)
    IN  IF checked /\ units \notin {0, 1, 2} THEN [exc |-> "ValueError"]
        ELSE IF checked /\ bytes.neg THEN [exc |-> "ValueError"]
        ELSE [exc |-> "none",
              hrf_size |-> [digits |-> bytes.digits, divided |-> r.divided],
              hrf_unit |-> UnitTable(units)[r.index + 1]]

\* size_in_hrf(size_value, units)
size_in_hrf(size_value, units) == SizeInHrf(size_value, units, TRUE)

\* Disk.get_size_in_hrf(units) of a disk of d.size sectors of 512 bytes.
get_size_in_hrf(d, units) ==
    SizeInHrf([neg |-> FALSE, digits |-> TimesSmall(d.size, 512, Divider(units), 0)],
              units, FALSE)

\* The largest number of digits of a size, in the base of the divider.
MaxDigits == 8

\* The sizes of up to MaxDigits digits 0, 1 and d - 1.
Sizes(d) ==
    UNION {{s \in [1..k -> {0, 1, d - 1}] : k = 0 \/ s[k] # 0} : k \in 0..MaxDigits}

\* The unit systems callers pass: the three there are, and one there is not.
UnitSystems == {0, 1, 2, 3}

InitSize ==
    /\ host = SmartHost
    /\ call = NoCall
    /\ result = NoResult
    /\ stdout = << >>
    /\ smart = NoSmart
    /\ di = NoInfo
    /\ answer = NoAnswer
    /\ udev = NoUdev
    /\ part = NoPartition

\* size_in_hrf(n, units), with n a size or -1
CallSizeInHrf ==
    /\ answer = NoAnswer
    /\ \E units \in UnitSystems :
       \E n \in {[neg |-> FALSE, digits |-> s] : s \in Sizes(Divider(units))}
                \cup {[neg |-> TRUE, digits |-> <<1>>]} :
          answer' = [op |-> "size_in_hrf", size_value |-> n, units |-> units,
                     ret |-> size_in_hrf(n, units)]
    /\ UNCHANGED <<host, call, result, stdout, smart, di, udev, part>>

\* d.get_size_in_hrf(units), for a disk of any size
CallGetSizeInHrf ==
    /\ answer = NoAnswer
    /\ \E units \in UnitSystems : \E s \in Sizes(Divider(units)) :
          answer' = [op |-> "get_size_in_hrf", size |-> s, units |-> units,
                     ret |-> get_size_in_hrf([size |-> s], units)]
    /\ UNCHANGED <<host, call, result, stdout, smart, di, udev, part>>

NextSize ==
    \/ CallSizeInHrf
    \/ CallGetSizeInHrf
    \/ AnswerUsed

SpecSize == InitSize /\ [][NextSize]_vars

----------------------------------------------------------------------------
(* The operations on a constructed Disk. *)

\* What the temp1_input file holds when get_temperature reads it: a
\* temperature in millidegrees, or nothing (_read_file gives "" for a file
\* that cannot be read).
HwmonContents == {<<"3", "5", "0", "0", "0">>, EmptyStr}

\* Disk.get_temperature() with content in the hwmon file: reading an
\* attribute the constructor never assigned raises AttributeError.
get_temperature(d, content) ==
    IF d.hwmon_path = Unset THEN [exc |-> "AttributeError", value |-> 0]
    ELSE IF d.hwmon_path = EmptyStr THEN [exc |-> "RuntimeError", value |-> 0]
    ELSE IF ~IntDecimal(content).ok THEN [exc |-> "ValueError", value |-> 0]
    ELSE [exc |-> "none", value |-> IntDecimal(content).value \div 1000]

\* The calls of the public methods of Disk other than get_smart_data, each
\* with its argument: the attribute for one of the fifteen plain accessors
\* (get_name, ..., get_partition_table_uuid), the unit system, the content of
\* the hwmon file, the other Disk of a comparison.
MethodCalls ==
    {<<"get", a>> : a \in
        {"name", "path", "byid_path", "bypath_path", "wwn", "model",
         "serial_number", "firmware", "type", "size", "device_id",
         "physical_block_size", "logical_block_size", "part_table_type",
         "part_table_uuid"}}
    \cup {<<op, 0>> : op \in {"is_ssd", "is_nvme", "is_hdd", "get_type_str"}}
    \cup {<<"get_size_in_hrf", units>> : units \in {0, 1, 2}}
    \cup {<<"get_temperature", content>> : content \in HwmonContents}
    \cup {<<op, DiskInit(SmartHost, Call(n, EmptyStr, EmptyStr, EmptyStr, EmptyStr)).disk>> :
            op \in {"__gt__", "__lt__", "__eq__"}, n \in {sda, sdb, nvme0n1}}

\* A write of the hwmon path that get_temperature does not make: the method
\* gives the attribute the constructor left out its empty value.
Method_sets_hwmon_path(d, op, arg) ==
    [self |-> IF op = "get_temperature" /\ d.hwmon_path = Unset
              THEN [d EXCEPT !.hwmon_path = EmptyStr] ELSE d,
     ret |-> 0]

\* A public method of Disk called on d: what it returns, and the attributes
\* of d when it has returned.  No method assigns to an attribute of self.
Method(d, op, arg) ==
    [self |-> d,
     ret |-> CASE op = "get" -> d[arg]
               [] op = "is_ssd" -> is_ssd(d)
               [] op = "is_nvme" -> is_nvme(d)
               [] op = "is_hdd" -> is_hdd(d)
               [] op = "get_type_str" ->
                    IF is_nvme(d) THEN "NVME" ELSE IF is_ssd(d) THEN "SSD" ELSE "HDD"
               [] op = "get_size_in_hrf" ->
                    get_size_in_hrf(
                        [size |-> TimesSmall(<<1>>, d.size, Divider(arg), 0)], arg)
               [] op = "get_temperature" -> get_temperature(d, arg)
               [] op = "__gt__" -> StrLess(arg.name, d.name)
               [] op = "__lt__" -> DiskLess(d, arg)
               [] OTHER -> d.name = arg.name]

\* No get_smart_data call is waiting for smartctl.
Idle == ~(smart = NoSmart /\ stdout # << >>)

\* d.get_temperature()
CallGetTemperature ==
    /\ result.exc = "none"
    /\ Idle
    /\ answer = NoAnswer
    /\ \E content \in HwmonContents :
          LET m == Method(result.disk, "get_temperature", content)
          IN  /\ answer' = [op |-> "get_temperature", ret |-> m.ret]
              /\ result' = [result EXCEPT !.disk = m.self]
    /\ UNCHANGED <<host, call, stdout, smart, di, udev, part>>

\* Any other method of the Disk is called and its value dropped.
CallMethod ==
    /\ result.exc = "none"
    /\ Idle
    /\ \E c \in MethodCalls :
          result' = [result EXCEPT !.disk = Method(result.disk, c[1], c[2]).self]
    /\ UNCHANGED <<host, call, stdout, smart, di, answer, udev, part>>

\* subprocess.run is waiting for smartctl, which prints its next line: the
\* prologue, then lines of a short report.
SmartctlPrintsReport ==
    /\ smart = NoSmart
    /\ \E line \in {Banner, Copyright, Blank, StartOfSmartData, HealthPassed,
                     AttributeHeader, StandbyLine} :
          /\ IF Len(stdout) < Len(Prologue)
             THEN line = Prologue[Len(stdout) + 1]
             ELSE /\ line \notin {Banner, Copyright}
                  /\ Len(stdout) < Len(Prologue) + MaxLines
          /\ stdout' = Append(stdout, line)
    /\ UNCHANGED <<host, call, result, smart, di, answer, udev, part>>

NextOps ==
    \/ SmartctlPrintsReport
    \/ SmartctlExits
    \/ SmartctlStarts
    \/ CallGetTemperature
    \/ CallMethod
    \/ AnswerUsed

SpecOps == InitSmart /\ [][NextOps]_vars

----------------------------------------------------------------------------
(* Properties of Disk construction. *)

\* A call was made and gave a Disk.
Constructed == result.exc = "none"

\* The call passed exactly the one key named.
OnlyName(c) == c.disk_name # EmptyStr /\ c = Call(c.disk_name, EmptyStr, EmptyStr, EmptyStr, EmptyStr)
OnlySerial(c) == c.serial_number # EmptyStr /\ c = Call(EmptyStr, c.serial_number, EmptyStr, EmptyStr, EmptyStr)
OnlyWwn(c) == c.wwn # EmptyStr /\ c = Call(EmptyStr, EmptyStr, c.wwn, EmptyStr, EmptyStr)
OnlyByid(c) == c.byid_name # EmptyStr /\ c = Call(EmptyStr, EmptyStr, EmptyStr, c.byid_name, EmptyStr)
OnlyBypath(c) == c.bypath_name # EmptyStr /\ c = Call(EmptyStr, EmptyStr, EmptyStr, EmptyStr, c.bypath_name)

\* The call passed one key, and the key is an identifier of device d of the
\* host: its name, its serial number, its WWN, or the name of a by-id or
\* by-path symlink that points to it.
Identifies(c, d) ==
    \/ OnlyName(c) /\ c.disk_name = d.name
    \/ OnlySerial(c) /\ c.serial_number = d.serial
    \/ OnlyWwn(c) /\ c.wwn = d.wwn
    \/ OnlyByid(c) /\ c.byid_name \in SeqRange(d.byid)
                   /\ ReadLink(host, ById, c.byid_name).found
    \/ OnlyBypath(c) /\ c.bypath_name \in SeqRange(d.bypath)
                     /\ ReadLink(host, ByPath, c.bypath_name).found

ByName(d) == DiskInit(host, Call(d.name, EmptyStr, EmptyStr, EmptyStr, EmptyStr))

\* C1: for every device d of the host for which Disk(d's name) succeeds, a
\* Disk made from any one identifier of d (name, by-id name, by-path name,
\* serial number, WWN) has d's name and the same value in every attribute.
C1_ResolutionEquivalence ==
    \A i \in 1..Len(host.blk) :
        (Identifies(call, host.blk[i]) /\ ByName(host.blk[i]).exc = "none")
            => /\ Constructed
               /\ result.disk.name = host.blk[i].name
               /\ result.disk = ByName(host.blk[i]).disk

IsLoopMajor(dev) == StartsWith(dev, <<"7", ":">>)

\* The device of the host that a call by name names.
NamedDevice == host.blk[IndexOfName(host, call.disk_name)]

CalledByNameOfDevice == OnlyName(call) /\ IndexOfName(host, call.disk_name) # 0

\* C3: a non-loop device whose name contains "nvme" is classified NVME
\* whatever its rotational file holds: construction never fails on the type,
\* and the Disk that results has type NVME.
C3_NvmeNameBeforeRotational ==
    (/\ result.exc # "nocall"
     /\ CalledByNameOfDevice
     /\ ~IsLoopMajor(NamedDevice.dev)
     /\ StrIn(<<"n", "v", "m", "e">>, NamedDevice.name))
        => /\ result.at # "type"
           /\ Constructed => get_type(result.disk) = NVME

\* C4: a device whose major is the loop major is classified LOOP whatever its
\* name and rotational file are, and its construction succeeds although its
\* serial number, WWN, by-id and by-path fields are empty.
C4_LoopMajorIsLoop ==
    (/\ result.exc # "nocall"
     /\ CalledByNameOfDevice
     /\ IsLoopMajor(NamedDevice.dev))
        => /\ Constructed
           /\ get_type(result.disk) = LOOP

\* C5: for a device that is neither a loop device nor NVMe-named the type is
\* HDD when the rotational file holds "1" and SSD when it holds "0"; with any
\* other content construction raises the RuntimeError of the type step and
\* the caller gets no Disk.
C5_RotationalDecides ==
    (/\ result.exc # "nocall"
     /\ CalledByNameOfDevice
     /\ ~IsLoopMajor(NamedDevice.dev)
     /\ ~StrIn(<<"n", "v", "m", "e">>, NamedDevice.name))
        => LET rot == NamedDevice.rotational
           IN  /\ rot = <<"1">> =>
                     result.at # "type" /\ (Constructed => get_type(result.disk) = HDD)
               /\ rot = <<"0">> =>
                     result.at # "type" /\ (Constructed => get_type(result.disk) = SSD)
               /\ rot \notin {<<"1">>, <<"0">>} =>
                     /\ result.exc = "RuntimeError"
                     /\ result.at = "type"
                     /\ result.disk = NoDisk

C5_Witness ==
    /\ CalledByNameOfDevice
    /\ NamedDevice.name = sda
    /\ NamedDevice.rotational = <<"2">>
    /\ result.exc = "RuntimeError"
    /\ result.at = "type"

\* The key of the call matches no live device: no device has that name,
\* reports that serial number or that WWN; the by-id or by-path symlink is
\* absent, or its target is not a device of the host.
MatchesNoDevice(c) ==
    \/ OnlyName(c) /\ IndexOfName(host, c.disk_name) = 0
    \/ OnlySerial(c) /\ \A i \in 1..Len(host.blk) : host.blk[i].serial # c.serial_number
    \/ OnlyWwn(c) /\ \A i \in 1..Len(host.blk) : host.blk[i].wwn # c.wwn
    \/ OnlyByid(c) /\ LET r == ReadLink(host, ById, c.byid_name)
                      IN  ~r.found \/ IndexOfName(host, r.target) = 0
    \/ OnlyBypath(c) /\ LET r == ReadLink(host, ByPath, c.bypath_name)
                        IN  ~r.found \/ IndexOfName(host, r.target) = 0

\* C6: for each of the five key kinds, a key that matches no live device makes
\* construction fail with ValueError, and no Disk is returned.
C6_NotFoundIsValueError ==
    (result.exc # "nocall" /\ MatchesNoDevice(call))
        => result.exc = "ValueError" /\ result.disk = NoDisk

\* C7: resolution by WWN only ever selects a device whose reported WWN equals
\* the requested WWN, whatever the order of the listing.
C7_WwnSelectsEqual ==
    (OnlyWwn(call) /\ Constructed) => result.disk.wwn = call.wwn

\* C8: Disk() with no identifier (all five keys absent or empty) raises
\* ValueError before any file-system call is made.
C8_NoIdentifierBeforeIO ==
    (result.exc # "nocall" /\ call = NoCall)
        => /\ result.exc = "ValueError"
           /\ result.at = "identifier"
           /\ result.io = 0
           /\ result.disk = NoDisk

C8_Witness ==
    /\ call = NoCall
    /\ result.exc = "ValueError"
    /\ Len(host.blk) = MaxDevices

----------------------------------------------------------------------------
(* Properties of get_smart_data(). *)

\* get_smart_data() has ended, by a return or by an exception.
Parsed == smart # NoSmart

\* The line that follows the prologue.
ProbeLine == stdout[Len(Prologue) + 1]

HasProbeLine == Len(stdout) > Len(Prologue)

\* C9: where the line after the prologue carries the marker STANDBY,
\* get_smart_data() returns a result with standby_mode true, with neither
\* smart_attributes nor nvme_attributes assigned, and removes no line from
\* output_lines but the prologue, whatever lines follow the probe line.
C9_StandbyShortCircuit ==
    (Parsed /\ HasProbeLine /\ StrIn(<<"STANDBY">>, ProbeLine))
        => /\ smart.exc = "none"
           /\ smart.value.standby_mode
           /\ smart.value.assigned \cap {"smart_attributes", "nvme_attributes"} = {}
           /\ smart.consumed = Len(Prologue)

\* A standby reply followed by a whole data section, for the NVMe disk.
C9_Witness ==
    /\ Parsed
    /\ is_nvme(result.disk)
    /\ stdout = Prologue \o <<StandbyLine, StartOfSmartData, CriticalWarningLine>>
    /\ smart.exc = "none"
    /\ smart.value.standby_mode

\* A line of the NVMe block that one of the nine statements takes and whose
\* value its regular expression does not find.
BlankValued(line) ==
    \E k \in 1..Len(NvmeFields) :
        ParseNvmeField(line, NvmeFields[k], << >>).exc = "RuntimeError"

\* The index in stdout of the first line that starts with Critical Warning,
\* which begins the NVMe block; 0 if there is none.
NvmeBlockStart ==
    LET at == {i \in (Len(Prologue) + 3)..Len(stdout) :
                  StartsWith(stdout[i], <<"Critical Warning">>)}
    IN  IF at = {} THEN 0 ELSE Min(at)

\* The parser of the NVMe disk comes to a recognized line with a blank value:
\* the output opens a data section, and the line stands in the NVMe block
\* before any empty line.
ReachesBlankValue ==
    /\ is_nvme(result.disk)
    /\ HasProbeLine
    /\ IsDataSection(ProbeLine)
    /\ NvmeBlockStart # 0
    /\ \E j \in NvmeBlockStart..Len(stdout) :
          /\ BlankValued(stdout[j])
          /\ \A k \in NvmeBlockStart..j : stdout[k] # Blank

\* C10: where the NVMe output has a recognized field line with a blank
\* value, get_smart_data() raises RuntimeError and returns no result.
C10_BlankNvmeValueIsRuntimeError ==
    (Parsed /\ ReachesBlankValue) => smart.exc = "RuntimeError"

\* The index in stdout of the line at which the NVMe loop starts: the first
\* line after the probe line that starts with Critical Warning; 0 if none.
NvmeLoopStart ==
    LET at == {i \in (Len(Prologue) + 2)..Len(stdout) :
                  StartsWith(stdout[i], <<"Critical Warning">>)}
    IN  IF at = {} THEN 0 ELSE Min(at)

\* The index of the empty line that ends the NVMe block; 0 if none.
NvmeLoopEnd ==
    LET at == {i \in NvmeLoopStart..Len(stdout) : stdout[i] = Blank}
    IN  IF NvmeLoopStart = 0 \/ at = {} THEN 0 ELSE Min(at)

\* The characters of a line after its first colon.
AfterColon(line) ==
    LET at == {i \in 1..Len(line) : line[i] = ":"}
    IN  IF at = {} THEN << >> ELSE SubSeq(line, Min(at) + 1, Len(line))

\* text without the characters of the set drop.
RECURSIVE Without(_, _)
Without(text, drop) ==
    IF text = << >> THEN << >>
    ELSE IF Head(text) \in drop THEN Without(Tail(text), drop)
    ELSE <<Head(text)>> \o Without(Tail(text), drop)

\* The integer a field line shows: the first number after the colon, read
\* as hexadecimal for Critical Warning and otherwise as decimal with its
\* thousands separators, commas or periods, removed.
ShownInteger(line, f) ==
    IF f.hex THEN IntHex(Search(AfterColon(line), HexClass))
    ELSE IntDecimal(Without(Search(AfterColon(line), Digits \cup {",", "."}), {",", "."}))

\* The label of field f stands on the line.
HasLabel(line, f) == IF f.prefix THEN StartsWith(line, f.label) ELSE StrIn(f.label, line)

\* The NVMe disk got a data section with a complete NVMe block in which every
\* labelled line shows an integer.
NvmeNormalOutcome ==
    /\ is_nvme(result.disk)
    /\ HasProbeLine
    /\ IsDataSection(ProbeLine)
    /\ NvmeLoopEnd # 0
    /\ \A j \in NvmeLoopStart..(NvmeLoopEnd - 1) : \A k \in 1..Len(NvmeFields) :
          HasLabel(stdout[j], NvmeFields[k]) => ShownInteger(stdout[j], NvmeFields[k]).ok

\* C11: in the normal outcome of an NVMe disk get_smart_data() returns a
\* result whose NVMe record has, for every field whose label line is in the
\* block, the integer that the (last such) line shows with its thousands
\* separators removed, be they commas or periods.
C11_NvmeFieldsAreShownIntegers ==
    (Parsed /\ NvmeNormalOutcome)
        => /\ smart.exc = "none"
           /\ "nvme_attributes" \in smart.value.assigned
           /\ \A k \in 1..Len(NvmeFields) :
                 LET f == NvmeFields[k]
                     at == {j \in NvmeLoopStart..(NvmeLoopEnd - 1) : HasLabel(stdout[j], f)}
                 IN  at # {} =>
                        /\ f.field \in DOMAIN smart.value.nvme_attributes
                        /\ smart.value.nvme_attributes[f.field]
                              = ShownInteger(stdout[CHOOSE j \in at : \A i \in at : i <= j], f).value

\* The index in stdout of the first start-of-SMART-data marker; 0 if none.
SmartDataMarker ==
    LET at == {i \in (Len(Prologue) + 1)..Len(stdout) : stdout[i] = StartOfSmartData}
    IN  IF at = {} THEN 0 ELSE Min(at)

\* The health-assessment line: the line that follows the marker and reports
\* PASSED or FAILED.
HasHealthLine ==
    /\ SmartDataMarker # 0
    /\ SmartDataMarker < Len(stdout)
    /\ stdout[SmartDataMarker + 1] \in {HealthPassed, HealthFailed}

HealthLine == stdout[SmartDataMarker + 1]

\* C12: in the normal outcome (the output opens with a section marker and
\* get_smart_data() returns a result) healthy is true exactly when the line
\* after the start-of-SMART-data marker reports PASSED and false exactly when
\* it reports FAILED, also where an information section comes first.
C12_HealthFollowsSmartDataMarker ==
    (Parsed /\ smart.exc = "none" /\ HasProbeLine /\ IsDataSection(ProbeLine) /\ HasHealthLine)
        => /\ "healthy" \in smart.value.assigned
           /\ smart.value.healthy <=> HealthLine = HealthPassed

\* The attributes of the result that get_smart_data() has assigned.
Populated == smart.value.assigned

AbsentResult == [exc |-> "none", consumed |-> 0, value |-> [none |-> TRUE]]

\* smartctl could not tell the type of the device.
UnknownInterface == HasProbeLine /\ ProbeLine = UnableToDetect

\* smartctl printed nothing at all.
NoOutput == stdout = << >>

\* C14: for a loop device, where smartctl cannot detect the device type, and
\* where smartctl printed nothing, get_smart_data() returns None: it raises
\* nothing and builds no DiskSmartData.
C14_ExpectedAbsenceIsNone ==
    (Parsed /\ (is_loop(result.disk) \/ UnknownInterface \/ NoOutput))
        => /\ smart.exc = "none"
           /\ smart.value = AbsentResult.value

----------------------------------------------------------------------------
(* Properties of DiskInfo. *)

\* A method of DiskInfo that takes filters was called.
FilterCall == answer.op \in {"get_disk_number", "get_disk_list"}

\* C15: get_disk_number and get_disk_list raise ValueError whenever the
\* included and the excluded set share a disk type, before any disk of the
\* list is looked at, counted or collected.
C15_OverlapIsValueError ==
    (FilterCall /\ answer.included \cap answer.excluded # {})
        => /\ answer.ret.exc = "ValueError"
           /\ answer.ret.examined = 0

C15_Witness ==
    /\ answer.op = "get_disk_number"
    /\ answer.included = {HDD, SSD}
    /\ answer.excluded = {SSD}
    /\ answer.ret.exc = "ValueError"
    /\ Len(di.disk_list) = MaxDevices

\* The places on the list of the disks whose type is in I and not in E.
Wanted(list, I, E) ==
    {i \in 1..Len(list) : get_type(list[i]) \in I /\ get_type(list[i]) \notin E}

\* The answer covers exactly the disks at the places of the set.
Covers(places) ==
    IF answer.op = "get_disk_number"
    THEN answer.ret.value = Cardinality(places)
    ELSE /\ Len(answer.ret.value) = Cardinality(places)
         /\ SeqRange(answer.ret.value) = {answer.before[i] : i \in places}

\* C16: for a non-empty included set I and an excluded set E disjoint from
\* it, get_disk_list gives exactly the discovered disks whose type is in I
\* and not in E and get_disk_number gives their number; without any filter
\* both cover every discovered disk.
C16_FiltersSelect ==
    /\ (FilterCall /\ answer.included # {} /\ answer.included \cap answer.excluded = {})
          => /\ answer.ret.exc = "none"
             /\ Covers(Wanted(answer.before, answer.included, answer.excluded))
    /\ (FilterCall /\ answer.included = {} /\ answer.excluded = {})
          => /\ answer.ret.exc = "none"
             /\ Covers(1..Len(answer.before))

C16_Witness ==
    /\ answer.op = "get_disk_list"
    /\ answer.included = {SSD, NVME}
    /\ answer.excluded = {HDD}
    /\ Len(answer.before) = MaxDevices
    /\ Len(answer.ret.value) = 1

\* The list goes up by name, or down.
Ascending(l) == \A i, j \in 1..Len(l) : i < j => StrLess(l[i].name, l[j].name)
Descending(l) == \A i, j \in 1..Len(l) : i < j => StrLess(l[j].name, l[i].name)

\* The list keeps the order that its disks have on the list of DiskInfo.
InDiscoveryOrder(l, list) ==
    \E places \in SUBSET (1..Len(list)) :
        /\ Len(l) = Cardinality(places)
        /\ \A k \in 1..Len(l) :
              \E i \in places : l[k] = list[i] /\ Cardinality({j \in places : j < i}) = k - 1

\* C17: get_disk_list(sorting=True) gives the disks of the unsorted call in
\* ascending order of name, in descending order with rev_order=True; with
\* sorting=False it gives them in discovery order whatever rev_order is; and
\* no call alters the list of the DiskInfo object.
C17_SortingByName ==
    (answer.op = "get_disk_list" /\ answer.ret.exc = "none")
        => LET unsorted == {answer.before[i] :
                              i \in Wanted(answer.before, EffectiveIncluded(answer.included),
                                           answer.excluded)}
               value == answer.ret.value
           IN  /\ SeqRange(value) = unsorted
               /\ Len(value) = Cardinality(unsorted)
               /\ answer.sorting /\ ~answer.rev_order => Ascending(value)
               /\ answer.sorting /\ answer.rev_order => Descending(value)
               /\ ~answer.sorting => InDiscoveryOrder(value, answer.before)
               /\ di.disk_list = answer.before

\* A list found in descending order comes back ascending; and one found in
\* ascending order comes back descending.
C17_Witness ==
    /\ answer.op = "get_disk_list"
    /\ answer.sorting
    /\ answer.rev_order
    /\ Len(answer.ret.value) = MaxDevices
    /\ Ascending(answer.before)
    /\ Descending(answer.ret.value)

\* A loop device of size zero.
ZeroSizedLoop(dev) == IsLoopMajor(dev.dev) /\ dev.size = 0

\* C18: the list of DiskInfo has one Disk for every block device of
\* /sys/block but the zero-sized loop devices, which are never on it.
C18_DiscoveryExcludesEmptyLoops ==
    di.exc = "none"
        => /\ \A i \in 1..Len(host.blk) :
                 Cardinality({k \in 1..Len(di.disk_list) :
                                 di.disk_list[k].name = host.blk[i].name})
                    = IF ZeroSizedLoop(host.blk[i]) THEN 0 ELSE 1
           /\ Len(di.disk_list) <= Len(host.blk)

\* C19: `d in di` is true if and only if d is one of the disks on the list
\* of di, that is the Disk of the same device as a listed disk; it is false
\* for the Disk of a device that is not on the list, even one that reports the
\* same or an empty serial number.
C19_ContainsIsMembership ==
    answer.op = "contains"
        => (answer.ret <=> \E k \in 1..Len(answer.before) :
                              answer.before[k].name = answer.item.name)

----------------------------------------------------------------------------
(* Properties of Partition. *)

\* A Partition was made.
PartitionMade == part.exc = "none"

\* The symlinks udev recorded for the partition, as paths, in file order: an
\* "S:" line names the link relative to /dev.
Symlinks ==
    LET IsLink(line) == line # << >> /\ Head(line) = "S:"
        recorded == SelectSeq(udev.lines, IsLink)
    IN  [i \in 1..Len(recorded) |-> <<"/dev/">> \o Tail(UnicodeEscape(recorded[i]))]

\* The symlinks under /dev/disk/<dir>/, in file order.
SymlinksUnder(dir) ==
    LET Under(link) == StartsWith(link, <<"/dev/", "disk", "/", dir, "/">>)
    IN  SelectSeq(Symlinks, Under)

\* One of the five single-path attributes holds the path of a symlink of its
\* directory, or the empty string when udev recorded none there.
SingleBucket(value, dir) ==
    IF SymlinksUnder(dir) = << >> THEN value = EmptyStr
    ELSE value \in SeqRange(SymlinksUnder(dir))

\* C20: every symlink of the partition goes by its directory prefix into
\* exactly one of six attributes: the by-id list holds every by-id symlink in
\* file order and nothing else; each of by-path, by-partuuid, by-partlabel,
\* by-label and by-uuid holds one symlink of its own directory, or the empty
\* string when there is none; a symlink of any other directory is in none.
C20_SymlinksClassifiedByPrefix ==
    PartitionMade =>
        /\ part.byid_path = SymlinksUnder("by-id")
        /\ SingleBucket(part.bypath_path, "by-path")
        /\ SingleBucket(part.bypartuuid_path, "by-partuuid")
        /\ SingleBucket(part.bypartlabel_path, "by-partlabel")
        /\ SingleBucket(part.bylabel_path, "by-label")
        /\ SingleBucket(part.byuuid_path, "by-uuid")

\* Partition("sda1", "8:1") was called where nothing but the df output can
\* make it fail: the device node, the udev data file and its entry numbers
\* are there, and df ran.
PartitionCalledWithDf ==
    /\ part # NoPartition
    /\ udev.node /\ udev.data /\ udev.entry = CompleteEntry
    /\ udev.df.run

\* The rows of df whose source is the partition's path.
OwnRows ==
    LET Own(row) == row.source = <<"/dev/">> \o sda1
    IN  SelectSeq(udev.df.rows, Own)

\* C21: free size and mounting point of a Partition are the available-blocks
\* and mount-target columns of the df row whose source is the partition's
\* path; when df shows no such row (other devices only, or no output) the
\* free size is 0, the mounting point is the empty string and the
\* construction succeeds.
C21_FreeSizeAndMountPointFromDfRow ==
    PartitionCalledWithDf /\ (OwnRows # << >> => AllDigits(OwnRows[1].avail)) =>
        /\ part.exc = "none"
        /\ IF OwnRows = << >>
           THEN part.fs_free_size = 0 /\ part.fs_mounting_point = EmptyStr
           ELSE /\ part.fs_free_size = Number(OwnRows[1].avail, 10)
                /\ part.fs_mounting_point = OwnRows[1].target

----------------------------------------------------------------------------
(* Properties of size_in_hrf. *)

\* One of the two size functions was called with a unit system there is and
\* a byte count of at least 1.
SizeCalled ==
    /\ answer.op \in {"size_in_hrf", "get_size_in_hrf"}
    /\ answer.units \in {0, 1, 2}
    /\ IF answer.op = "size_in_hrf"
       THEN ~answer.size_value.neg /\ answer.size_value.digits # << >>
       ELSE answer.size # << >>

\* The byte count n of the call, in the base of its divider.
ByteCount ==
    IF answer.op = "size_in_hrf" THEN answer.size_value.digits
    ELSE TimesSmall(answer.size, 512, Divider(answer.units), 0)

\* The largest index k of the unit table with n / d^k >= 1: n has more than
\* k digits in base d.
LargestIndex ==
    CHOOSE k \in 0..6 :
        /\ Len(ByteCount) > k
        /\ \A j \in 0..6 : Len(ByteCount) > j => j <= k

\* C22: for every byte count n >= 1 and every unit system, size_in_hrf (and
\* Disk.get_size_in_hrf for n = size x 512) returns n / d^k with the k-th
\* unit of the system's table, d being 1000 for metric and 1024 for IEC and
\* legacy units and k the largest index of the seven-entry table with
\* n / d^k >= 1.
C22_MagnitudeTimesUnitIsByteCount ==
    SizeCalled =>
        /\ answer.ret.exc = "none"
        /\ answer.ret.hrf_size = [digits |-> ByteCount, divided |-> LargestIndex]
        /\ answer.ret.hrf_unit = UnitTable(answer.units)[LargestIndex + 1]

----------------------------------------------------------------------------
(* Properties of the operations on a Disk. *)

\* None of the three hwmon patterns matched a file when the Disk was made.
NoHwmonFile ==
    /\ result.exc = "none"
    /\ \A k \in 1..3 : Glob(host, result.disk.name, k) = << >>

\* C23: for a constructed Disk for which none of the three temperature-sensor
\* layouts gave an existing file, get_temperature raises RuntimeError and
\* nothing else.
C23_NoHwmonFileIsRuntimeError ==
    answer.op = "get_temperature" /\ NoHwmonFile
        => answer.ret.exc = "RuntimeError"

Report == SubSeq(stdout, Len(Prologue) + 1, Len(stdout))

\* The places of the column header after the section marker, and of the
\* blank lines after the first header.
HeaderPlaces == {i \in 2..Len(Report) : StartsWith(Report[i], <<"ID#">>)}
TableEnds == {j \in (Min(HeaderPlaces) + 1)..Len(Report) : Report[j] = Blank}

\* The rows of the table: the lines between the header and the blank line
\* that ends the table.
TableRows == SubSeq(Report, Min(HeaderPlaces) + 1, Min(TableEnds) - 1)

\* smartctl printed the report of an HDD or SSD in the normal outcome: the
\* section marker, later the column header, rows, and the blank line.
AtaNormalOutput ==
    /\ Parsed
    /\ result.exc = "none" /\ ~is_nvme(result.disk)
    /\ Report # << >> /\ IsDataSection(Report[1])
    /\ HeaderPlaces # {} /\ TableEnds # {}
    /\ \A k \in 1..Len(TableRows) : TableRows[k] \in {AttributeRow, AttributeRowMinMax}

\* The SmartAttribute of a row: its first ten fields, six of them as text
\* and four as numbers.
RowAttribute(row) ==
    LET field == Split(row)
    IN  [id |-> Number(field[1], 10), attribute_name |-> field[2], flag |-> field[3],
         value |-> Number(field[4], 10), worst |-> Number(field[5], 10),
         thresh |-> Number(field[6], 10), type |-> field[7], updated |-> field[8],
         when_failed |-> field[9], raw_value |-> Number(field[10], 10)]

\* C25: for the output of an HDD or SSD in the normal outcome the attribute
\* list of the result holds exactly one SmartAttribute for each row between
\* the column header and the end of the table, in table order, each made of
\* the row's ten positional fields (a raw value "38 (Min/Max 22/40)" gives
\* 38); no line before the header or after the table becomes an attribute.
C25_OneAttributePerTableRow ==
    AtaNormalOutput =>
        /\ smart.exc = "none"
        /\ smart.value.smart_attributes
              = [k \in 1..Len(TableRows) |-> RowAttribute(TableRows[k])]

\* The place in the report of the first line that is not blank.
NonBlankPlaces == {i \in 1..Len(Report) : Report[i] # Blank}

\* The first non-blank line after the prologue is no section marker, no
\* standby marker and no message of a failed open.
UnrecognisedReply ==
    /\ Parsed
    /\ NonBlankPlaces # {}
    /\ LET first == Report[Min(NonBlankPlaces)]
       IN  /\ ~IsDataSection(first)
           /\ ~StrIn(<<"STANDBY">>, first)
           /\ ~StrIn(<<"Smartctl open device">>, first)

\* C26: where the first non-blank line after the prologue is neither a
\* data-section marker, nor a standby marker, nor the message of a failed
\* open, get_smart_data() fails with an error; it returns no result object
\* for such output.
C26_UnrecognisedReplyIsError ==
    UnrecognisedReply => smart.exc # "none"

\* C27: whatever lines smartctl prints and whatever the type of the disk,
\* get_smart_data() ends, and it ends by returning (a loop, standby,
\* unknown-interface or normal outcome) or by raising the documented
\* RuntimeError; output cut short before the section marker, the field
\* labels, the column header or the closing blank line makes it fail in no
\* other way.
C27_ReturnsOrRuntimeError ==
    Parsed => smart.exc \in {"none", "RuntimeError"}

\* C28: get_disk_number and get_disk_list called without an included set (or
\* with an empty one) and with an excluded set that holds at least one of
\* HDD, SSD and NVME raise ValueError: the included set becomes all three
\* types and then shares a type with the excluded set.
C28_DefaultIncludedConflicts ==
    (FilterCall /\ answer.included = {} /\ answer.excluded \cap {HDD, SSD, NVME} # {})
        => answer.ret.exc = "ValueError"

\* Both methods were asked for everything but the NVMe disks of a full list.
C28_Witness ==
    /\ FilterCall
    /\ answer.included = {}
    /\ answer.excluded = {NVME}
    /\ answer.ret.exc = "ValueError"
    /\ Len(di.disk_list) = MaxDevices

\* The call that passes only the first identifier of c in the order
\* disk_name, serial_number, wwn, byid_name, bypath_name.
FirstKeyOnly(c) ==
    LET order == <<"disk_name", "serial_number", "wwn", "byid_name", "bypath_name">>
        given == {k \in 1..5 : c[order[k]] # EmptyStr}
        first == IF given = {} THEN 0 ELSE Min(given)
    IN  [f \in DOMAIN c |-> IF first # 0 /\ f = order[first] THEN c[f] ELSE EmptyStr]

SeveralKeys(c) == Cardinality({f \in DOMAIN c : c[f] # EmptyStr}) >= 2

\* C29: a construction with several identifiers gives what the construction
\* with only the first of them (in the order name, serial number, WWN, by-id
\* name, by-path name) gives on the same host: the same disk or the same
\* exception after the same number of file-system calls, whatever the other
\* identifiers name.
C29_FirstKeyDecides ==
    (call # NoCall /\ result # NoResult)
        => result = DiskInit(host, FirstKeyOnly(call))

\* sdb was built although the call also named sda's serial number and a
\* by-id link that does not exist.
C29_Witness ==
    /\ SeveralKeys(call)
    /\ call.disk_name = sdb
    /\ call.serial_number = <<"S", "1">>
    /\ call.byid_name = <<"x", "9">>
    /\ result.exc = "none"
    /\ result.disk.name = sdb
    /\ result.disk.serial_number = <<"S", "2">>
    /\ Len(host.blk) = MaxDevices

\* What Disk(disk_name=...) gives for the i-th entry of /sys/block.
EntryOutcome(h, i) ==
    DiskInit(h, Call(ListDir(h)[i], EmptyStr, EmptyStr, EmptyStr, EmptyStr))

FailingEntries(h) == {i \in 1..Len(h.blk) : EntryOutcome(h, i).exc # "none"}

\* C30: DiskInfo() is all-or-nothing.  When every entry of /sys/block can be
\* constructed, the new object holds one disk per entry in listing order;
\* when some entry cannot, the exception of the first such entry leaves the
\* constructor and there is no object and no list of the other disks.
C30_DiscoveryAllOrNothing ==
    [][(di = NoInfo /\ di' # NoInfo) =>
          IF FailingEntries(host) = {}
          THEN /\ di'.exc = "none"
               /\ di'.disk_list = [i \in 1..Len(host.blk) |-> EntryOutcome(host, i).disk]
          ELSE /\ di'.exc = EntryOutcome(host, Min(FailingEntries(host))).exc
               /\ di'.disk_list = << >>]_vars

\* DiskInfo() raised RuntimeError for the last entry of a listing whose
\* other entries are disks.
C30_Witness ==
    /\ Len(host.blk) = MaxDevices
    /\ FailingEntries(host) = {MaxDevices}
    /\ di # NoInfo
    /\ di.exc = "RuntimeError"
    /\ di.disk_list = << >>

====
